---- MODULE Spec2Model ----
(***************************************************************************)
(* GWEN CLI: the Ink/React terminal dashboard controller.                  *)
(*                                                                         *)
(* The model follows App.tsx (src/unnamed/part_001), the command parser    *)
(* and the backend command handlers (src/gwen-cli/src/core/                *)
(* command-parser.ts) and the OutputPanel log viewport                     *)
(* (src/unnamed/part_003).  Strings that the code inspects character by    *)
(* character (the input buffer, command names) are sequences of            *)
(* one-character strings; log messages are plain strings.                  *)
(***************************************************************************)
EXTENDS Integers, Sequences, FiniteSets, TLC

VARIABLES
    state,          \* the React AppState object of App (part_001:16-28)
    isInitialized,  \* part_001:31
    interval,       \* the setInterval timer of the mount effect: "none", "active", "cleared"
    closure,        \* the isExecuting value captured by the interval callback's closure
    pending,        \* backend requests awaited by command handlers, oldest first
    exited,         \* process.exit / ink exit has been called
    nkeys,          \* keystrokes delivered so far (bounded by MaxKeys)
    nticks,         \* times the interval has fired (bounded by MaxTicks)
    lastEvent,      \* the last handler that ran and what it observed
    panel,          \* an OutputPanel instance: its props and its rendered window
    parser,         \* a parseCommand call: its input and what it returned
    engine,         \* a runAgent call: the race between the agent's work and the timeout
    board,          \* an aggregation: the agent summaries and the rows derived from them
    batch           \* a local run-agent --auto handler: its agents and how far it has come

vars == <<state, isInitialized, interval, closure, pending, exited, nkeys, nticks, lastEvent,
          panel, parser, engine, board, batch>>

appVars == <<state, isInitialized, interval, closure, pending, exited, nkeys, nticks, lastEvent>>

MaxInputLen == 6
MaxTimeout == 2
MaxWorkTime == 3
MaxCount == 2
MaxRows == 2
MaxAgents == 3

----------------------------------------------------------------------------
(* Bounds of the model *)

MaxLogs == 20
MaxKeys == 5
MaxTicks == 1
MaxPending == 2
MaxPanelLogs == 6
MaxPanelHeight == 3

(* Program constants *)

LogFeedHeight == 15
PageScroll == 5
LineScroll == 1
DefaultTimeout == 30000

----------------------------------------------------------------------------
(* Character strings *)

Whitespace == {" "}

InputChars == {"/", "h"}

Min(a, b) == IF a < b THEN a ELSE b

Max(a, b) == IF a > b THEN a ELSE b

RECURSIVE Join(_)
Join(s) == IF s = <<>> THEN "" ELSE Head(s) \o Join(Tail(s))

RECURSIVE TrimStart(_)
TrimStart(s) ==
    IF s # <<>> /\ Head(s) \in Whitespace THEN TrimStart(Tail(s)) ELSE s

RECURSIVE TrimEnd(_)
TrimEnd(s) ==
    IF s # <<>> /\ s[Len(s)] \in Whitespace
    THEN TrimEnd(SubSeq(s, 1, Len(s) - 1))
    ELSE s

Trim(s) == TrimEnd(TrimStart(s))

StartsWith(s, c) == s # <<>> /\ Head(s) = c

\* String.prototype.slice(0, -1)
DropLast(s) == IF s = <<>> THEN <<>> ELSE SubSeq(s, 1, Len(s) - 1)

LowerChar(c) ==
    CASE c = "Q" -> "q"
      [] c = "H" -> "h"
      [] c = "X" -> "x"
      [] OTHER -> c

ToLowerCase(s) == [i \in 1..Len(s) |-> LowerChar(s[i])]

Includes(hay, needle) ==
    \E i \in 0..(Len(hay) - Len(needle)) :
        SubSeq(hay, i + 1, i + Len(needle)) = needle

\* String.prototype.split(/\s+/): a leading or trailing run of whitespace
\* yields an empty first or last token.
RECURSIVE SplitFrom(_, _, _)
SplitFrom(s, cur, inRun) ==
    IF s = <<>> THEN <<cur>>
    ELSE IF Head(s) \in Whitespace
         THEN IF inRun THEN SplitFrom(Tail(s), cur, TRUE)
              ELSE <<cur>> \o SplitFrom(Tail(s), <<>>, TRUE)
         ELSE SplitFrom(Tail(s), Append(cur, Head(s)), FALSE)

\* A split at every single whitespace character
RECURSIVE SplitAtEach(_)
SplitAtEach(s) ==
    IF s = <<>> THEN << <<>> >>
    ELSE LET rest == SplitAtEach(Tail(s)) IN
         IF Head(s) \in Whitespace THEN << <<>> >> \o rest
         ELSE << <<Head(s)>> \o Head(rest) >> \o Tail(rest)

SplitWhitespace(s) == SplitFrom(s, <<>>, FALSE)

----------------------------------------------------------------------------
(* Command interpreter: command-parser.ts *)

NullCommand == [isNull |-> TRUE, command |-> <<>>, args |-> <<>>]

\* A parser without the prefix test
parseCommandUnchecked(input) ==
    LET trimmed == Trim(input)
        parts == SplitWhitespace(IF trimmed = <<>> THEN <<>> ELSE Tail(trimmed))
    IN
    [isNull |-> FALSE, command |-> parts[1], args |-> Tail(parts)]

parseCommand(input) ==
    LET trimmed == Trim(input) IN
    IF ~StartsWith(trimmed, "/") THEN NullCommand
    ELSE LET parts == SplitWhitespace(Tail(trimmed)) IN
         [isNull |-> FALSE, command |-> parts[1], args |-> Tail(parts)]

\* A palette test on the untrimmed buffer
shouldShowCommandPaletteExact(input) == input = <<"/">>

shouldShowCommandPalette(input) == Trim(input) = <<"/">>

cmdStartAgents == <<"s","t","a","r","t","-","a","g","e","n","t","s">>
cmdRunAgent == <<"r","u","n","-","a","g","e","n","t">>
cmdListAgents == <<"l","i","s","t","-","a","g","e","n","t","s">>
cmdDetail == <<"d","e","t","a","i","l">>
cmdHelp == <<"h","e","l","p">>
cmdExit == <<"e","x","i","t">>

\* The registry createCommands returns, in its order (command-parser.ts:176-381)
commands ==
    << [name |-> cmdStartAgents,
        aliases |-> << <<"s","t","a","r","t">>, <<"r","u","n">> >>],
       [name |-> cmdRunAgent, aliases |-> << >>],
       [name |-> cmdListAgents,
        aliases |-> << <<"l","s">>, <<"a","g","e","n","t","s">> >>],
       [name |-> cmdDetail,
        aliases |-> << <<"b","r","o","w","s","e">>, <<"v","i","e","w">> >>],
       [name |-> cmdHelp, aliases |-> << <<"?">>, <<"h">> >>],
       [name |-> cmdExit, aliases |-> << <<"q","u","i","t">>, <<"q">> >>] >>

filterCommands(cmds, input) ==
    IF input = <<"/">> \/ input = <<>> THEN cmds
    ELSE LET searchTerm == IF StartsWith(input, "/")
                           THEN ToLowerCase(Tail(input))
                           ELSE ToLowerCase(input)
             matches(cmd) ==
                 \/ Includes(ToLowerCase(cmd.name), searchTerm)
                 \/ \E a \in 1..Len(cmd.aliases) :
                        Includes(ToLowerCase(cmd.aliases[a]), searchTerm)
         IN SelectSeq(cmds, matches)

\* A lookup by command name only
findCommandByName(name) ==
    LET hits == {i \in 1..Len(commands) : commands[i].name = name}
    IN IF hits = {} THEN 0 ELSE CHOOSE i \in hits : \A j \in hits : i <= j

\* commands.find(cmd => cmd.name === name || cmd.aliases?.includes(name));
\* 0 when no command matches (part_001:257-259)
findCommand(name) ==
    LET hits == {i \in 1..Len(commands) :
                    \/ commands[i].name = name
                    \/ \E a \in 1..Len(commands[i].aliases) :
                           commands[i].aliases[a] = name}
    IN IF hits = {} THEN 0 ELSE CHOOSE i \in hits : \A j \in hits : i <= j

----------------------------------------------------------------------------
(* Application state and its setters: App.tsx (part_001:16-72)              *)
(* A "world" w is what a handler reads and writes: the React state, the    *)
(* requests it leaves pending at its first await, and process exit.        *)

Undefined == "undefined"

InitialState ==
    [logs |-> <<>>,
     inputValue |-> <<>>,
     showCommandPalette |-> FALSE,
     selectedCommandIndex |-> 0,
     isExecuting |-> FALSE,
     currentAgent |-> Undefined,
     scrollOffset |-> 0,
     viewMode |-> "main",
     agentResults |-> <<>>,
     selectedAgentIndex |-> 0,
     dashboardAgents |-> <<>>]

\* LogEntry; the timestamp (new Date()) is informational and is left out.
LogEntry(message, level, source) ==
    [level |-> level, message |-> message, source |-> source]

\* A log that puts the new entry first
prependLog(logs, entry) == <<entry>> \o logs

appendLog(logs, entry) == Append(logs, entry)

\* An addLog that also returns the feed to its tail
addLogAndFollow(w, message, level, source) ==
    [w EXCEPT !.state.logs = appendLog(@, LogEntry(message, level, source)),
              !.state.scrollOffset = 0]

addLog(w, message, level, source) ==
    [w EXCEPT !.state.logs = appendLog(@, LogEntry(message, level, source))]

RECURSIVE addLogs(_, _)
addLogs(w, entries) ==
    IF entries = <<>> THEN w
    ELSE addLogs(addLog(w, entries[1].message, entries[1].level, entries[1].source),
                 Tail(entries))

setExecuting(w, executing) == [w EXCEPT !.state.isExecuting = executing]

setCurrentAgent(w, agent) == [w EXCEPT !.state.currentAgent = agent]

setAgentResults(w, results) == [w EXCEPT !.state.agentResults = results]

setDashboardAgents(w, agents) == [w EXCEPT !.state.dashboardAgents = agents]

showDetailView(w) ==
    [w EXCEPT !.state.viewMode = "detail", !.state.selectedAgentIndex = 0]

await(w, request) == [w EXCEPT !.pending = Append(@, request)]

Request(op, stage, agentName, agents) ==
    [op |-> op, stage |-> stage, agentName |-> agentName, agents |-> agents]

----------------------------------------------------------------------------
(* Backend responses (api-client.ts:9-66), drawn from small fixture sets    *)

NoMetrics ==
    [defined |-> FALSE, keys |-> {}, indicator |-> Undefined, status |-> Undefined,
     current_incidents |-> 0, current_events |-> 0, unresolved_incidents |-> 0,
     recent_incidents_7d |-> 0, recent_events_7d |-> 0]

SummaryAws ==
    [agent_name |-> "aws", status |-> "completed", summary |-> "",
     key_metrics |-> NoMetrics, has_execution_time |-> FALSE]

SummaryGcp ==
    [agent_name |-> "gcp", status |-> "completed", summary |-> "",
     key_metrics |-> [NoMetrics EXCEPT !.defined = TRUE, !.keys = {"indicator"},
                                       !.indicator = "minor"],
     has_execution_time |-> FALSE]

Report(summaries, overall, errors) ==
    [execution_id |-> "exec", overall_status |-> overall, has_total_duration |-> FALSE,
     agent_summaries |-> summaries, errors |-> errors]

Reports ==
    { Report(<<>>, "partial", <<>>),
      Report(<<SummaryAws, SummaryGcp>>, "success", <<>>) }

\* BackendAgentStatus returned by executeAgent
ExecuteResults ==
    { [state |-> "completed", error_message |-> ""],
      [state |-> "error", error_message |-> "boom"] }

\* BackendAgentLogs returned by getAgentLogs
AgentLogs ==
    { [messages |-> <<>>, raw_output |-> FALSE],
      [messages |-> <<"checked">>, raw_output |-> TRUE] }

\* BackendSystemInfo.agents returned by getSystemInfo
SystemInfos == { <<>>, <<"aws", "gcp">> }

\* getAgentStatus: agent name -> state, for the agents the backend knows
AgentStatuses == { [n \in {"aws"} |-> "completed"] }

----------------------------------------------------------------------------
(* Backend command handlers: createCommands (command-parser.ts:50-382)     *)

\* JavaScript a || b on numbers
OrElse(a, b) == IF a # 0 THEN a ELSE b

\* A plural suffix from one upwards
PluralFromOne(n) == IF n >= 1 THEN "s" ELSE ""

Plural(n) == IF n > 1 THEN "s" ELSE ""

\* A derivation that looks at the incident counts before the indicator
dashboardRowCountsFirst(agent) ==
    LET km == agent.key_metrics
        currentIncidents ==
            OrElse(km.current_incidents,
                   OrElse(km.current_events, OrElse(km.unresolved_incidents, 0)))
        serviceStatus ==
            IF ~km.defined THEN "Unknown"
            ELSE IF km.status = "completed" /\ currentIncidents > 0 THEN "Issues Detected"
            ELSE IF km.indicator = "none" THEN "Operational"
            ELSE IF km.indicator = "minor" THEN "Degraded"
            ELSE IF km.indicator = "major" THEN "Major Outage"
            ELSE IF km.indicator = "critical" THEN "Critical Outage"
            ELSE IF km.status = "completed" THEN "Operational"
            ELSE "Unknown"
    IN [name |-> agent.agent_name, status |-> serviceStatus, summary |-> agent.summary,
        isExecuting |-> FALSE]

\* One DashboardAgent row from one agent summary (command-parser.ts:88-136)
dashboardRow(agent) ==
    LET km == agent.key_metrics
        currentIncidents ==
            OrElse(km.current_incidents,
                   OrElse(km.current_events, OrElse(km.unresolved_incidents, 0)))
        recentIncidents == OrElse(km.recent_incidents_7d, OrElse(km.recent_events_7d, 0))
        serviceStatus ==
            IF ~km.defined THEN "Unknown"
            ELSE IF km.indicator = "none" THEN "Operational"
            ELSE IF km.indicator = "minor" THEN "Degraded"
            ELSE IF km.indicator = "major" THEN "Major Outage"
            ELSE IF km.indicator = "critical" THEN "Critical Outage"
            ELSE IF km.status = "completed"
                 THEN IF currentIncidents > 0 THEN "Issues Detected" ELSE "Operational"
            ELSE "Unknown"
        summary ==
            IF ~km.defined
            THEN IF agent.summary # "" THEN agent.summary ELSE "No summary available"
            ELSE IF currentIncidents > 0
                 THEN ToString(currentIncidents) \o " active incident"
                          \o Plural(currentIncidents)
            ELSE IF recentIncidents > 0
                 THEN ToString(recentIncidents) \o " incident" \o Plural(recentIncidents)
                          \o " over last 7 days"
            ELSE "No incidents over last 7 days"
    IN [name |-> agent.agent_name, status |-> serviceStatus, summary |-> summary,
        isExecuting |-> FALSE]

\* Rows that keep each result's own summary text
aggregateKeepSummary(summaries) ==
    [i \in 1..Len(summaries) |->
        [name |-> summaries[i].agent_name, status |-> "Operational",
         summary |-> IF summaries[i].summary # "" THEN summaries[i].summary
                     ELSE "No summary available",
         isExecuting |-> FALSE]]

\* Rows in the reverse of the input order
aggregateReversed(summaries) ==
    [i \in 1..Len(summaries) |-> dashboardRow(summaries[Len(summaries) + 1 - i])]

aggregate(summaries) == [i \in 1..Len(summaries) |-> dashboardRow(summaries[i])]

\* AgentResult stored for the detail view (command-parser.ts:75-81)
agentResult(agent) ==
    [name |-> agent.agent_name, status |-> agent.status, summary |-> agent.summary,
     key_metrics |-> agent.key_metrics, has_execution_time |-> agent.has_execution_time]

\* Object.entries(key_metrics), in a fixed key order
MetricKeyOrder ==
    <<"indicator", "status", "current_incidents", "current_events",
      "unresolved_incidents", "recent_incidents_7d", "recent_events_7d">>

\* The log lines of one agent summary (command-parser.ts:143-161)
agentLogLines(agent) ==
    LET src == agent.agent_name
        km == agent.key_metrics
        inKeys(k) == k \in km.keys
        keyLines == SelectSeq(MetricKeyOrder, inKeys)
    IN  <<LogEntry(agent.agent_name \o ": " \o agent.status, "info", src)>>
        \o (IF agent.summary # "" THEN <<LogEntry("  " \o agent.summary, "info", src)>>
            ELSE <<>>)
        \o (IF agent.has_execution_time THEN <<LogEntry("  Time", "info", src)>> ELSE <<>>)
        \o (IF km.defined /\ km.keys # {}
            THEN <<LogEntry("  Metrics:", "info", src)>>
                 \o [i \in 1..Len(keyLines) |-> LogEntry("    " \o keyLines[i], "info", src)]
            ELSE <<>>)

RECURSIVE allAgentLogLines(_)
allAgentLogLines(summaries) ==
    IF summaries = <<>> THEN <<>>
    ELSE agentLogLines(Head(summaries)) \o allAgentLogLines(Tail(summaries))

\* executeAllAgents up to its await (command-parser.ts:60-65)
executeAllAgents(w) ==
    LET w1 == addLog(w, "Starting all agents...", "system", Undefined)
        w2 == setExecuting(w1, TRUE)
        w3 == setCurrentAgent(w2, "All Agents")
    IN await(w3, Request("retrieveStatus", 1, "All Agents", <<>>))

\* executeAllAgents after retrieveStatus resolved (command-parser.ts:67-174)
executeAllAgentsResolved(w, report) ==
    LET w1 == addLog(w, "Execution ID: " \o report.execution_id, "info", "system")
        w2 == addLog(w1, "Overall Status: " \o report.overall_status,
                     IF report.overall_status = "success" THEN "success" ELSE "warn",
                     "system")
        w3 == IF report.has_total_duration
              THEN addLog(w2, "Total Time", "info", "system") ELSE w2
        w4 == setAgentResults(w3, [i \in 1..Len(report.agent_summaries) |->
                                      agentResult(report.agent_summaries[i])])
        w5 == setDashboardAgents(w4, aggregate(report.agent_summaries))
        w6 == addLogs(w5, allAgentLogLines(report.agent_summaries))
        w7 == IF Len(report.errors) > 0
              THEN addLogs(addLog(w6, "Errors encountered:", "warn", "system"),
                           [i \in 1..Len(report.errors) |->
                               LogEntry("  " \o report.errors[i], "error", "system")])
              ELSE w6
        w8 == setCurrentAgent(setExecuting(w7, FALSE), Undefined)
        w9 == addLog(w8, "All agents completed", "success", "system")
    IN addLog(w9, "Type /detail to browse detailed results", "info", "system")

\* start-agents: the catch branch (command-parser.ts:184-189)
\* start-agents catch branch that also drops the stored results
executeAllAgentsRejectedClearing(w) ==
    LET w1 == addLog(w, "Failed to execute agents: Network request failed", "error", "system")
    IN setAgentResults(setCurrentAgent(setExecuting(w1, FALSE), Undefined), <<>>)

executeAllAgentsRejected(w) ==
    LET w1 == addLog(w, "Failed to execute agents: Network request failed", "error", "system")
    IN setCurrentAgent(setExecuting(w1, FALSE), Undefined)

\* run-agent up to its first await (command-parser.ts:195-207)
runAgentCommand(w, args) ==
    IF Len(args) = 0
    THEN addLog(w, "Usage: /run-agent <agent-name>", "error", "system")
    ELSE LET agentName == Join(args[1])
             w1 == addLog(w, "Executing agent: " \o agentName, "system", Undefined)
             w2 == setExecuting(setCurrentAgent(w1, agentName), TRUE)
         IN await(w2, Request("executeAgent", 1, agentName, <<>>))

\* run-agent after executeAgent resolved, up to the await of getAgentLogs
\* (command-parser.ts:209-221)
runAgentExecuted(w, agentName, result) ==
    LET level == IF result.state = "completed" THEN "success"
                 ELSE IF result.state = "error" THEN "error" ELSE "warn"
        w1 == addLog(w, "State: " \o result.state, level, agentName)
        w2 == IF result.error_message # ""
              THEN addLog(w1, "Error: " \o result.error_message, "error", agentName)
              ELSE w1
    IN await(w2, Request("getAgentLogs", 2, agentName, <<>>))

\* run-agent completion that also puts a row for the agent on the dashboard
runAgentCompleteWithRow(w, agentName) ==
    LET w1 == setCurrentAgent(setExecuting(w, FALSE), Undefined)
        w2 == setDashboardAgents(w1, <<[name |-> agentName, status |-> "Operational",
                                        summary |-> "", isExecuting |-> FALSE]>>)
    IN addLog(w2, "Agent " \o agentName \o " execution complete", "success", "system")

\* run-agent: the end of the try block (command-parser.ts:241-243)
runAgentComplete(w, agentName) ==
    LET w1 == setCurrentAgent(setExecuting(w, FALSE), Undefined)
    IN addLog(w1, "Agent " \o agentName \o " execution complete", "success", "system")

\* run-agent after getAgentLogs resolved (command-parser.ts:221-243)
runAgentLogsResolved(w, agentName, logs) ==
    LET w1 == IF Len(logs.messages) > 0
              THEN addLogs(addLog(w, "Agent messages:", "info", agentName),
                           [i \in 1..Len(logs.messages) |->
                               LogEntry(logs.messages[i], "info", agentName)])
              ELSE w
        w2 == IF logs.raw_output
              THEN addLog(w1, "Raw output available", "info", agentName) ELSE w1
    IN runAgentComplete(w2, agentName)

\* run-agent catch branch that only logs the failure
runAgentRejectedNoReset(w) ==
    addLog(w, "Failed to execute agent: Network request failed", "error", "system")

\* run-agent: the outer catch branch (command-parser.ts:245-250)
runAgentRejected(w) ==
    LET w1 == addLog(w, "Failed to execute agent: Network request failed", "error", "system")
    IN setCurrentAgent(setExecuting(w1, FALSE), Undefined)

\* list-agents up to its first await (command-parser.ts:257-261)
listAgentsCommand(w) ==
    await(addLog(w, "Fetching agents from backend...", "system", Undefined),
          Request("getSystemInfo", 1, Undefined, <<>>))

\* list-agents after getSystemInfo resolved (command-parser.ts:263-272)
listAgentsInfoResolved(w, agents) ==
    IF Len(agents) = 0
    THEN addLog(w, "No agents found", "warn", "system")
    ELSE await(addLog(w, "Found " \o ToString(Len(agents)) \o " agent(s)", "success",
                      "system"),
               Request("getAgentStatus", 2, Undefined, agents))

\* list-agents: the outer catch branch (command-parser.ts:334-338)
listAgentsInfoRejected(w) ==
    LET w1 == addLog(w, "Failed to list agents: Network request failed", "error", "system")
    IN addLog(w1, "Make sure the backend is running on http://localhost:8000", "warn",
              "system")

\* One row of the list-agents dashboard (command-parser.ts:274-311)
listRow(agentName, statuses) ==
    IF agentName \in DOMAIN statuses
    THEN LET s == statuses[agentName]
             displayStatus ==
                 IF s = "completed" THEN "Ready"
                 ELSE IF s = "error" THEN "Error"
                 ELSE IF s = "thinking" THEN "Running"
                 ELSE IF s = "warning" THEN "Warning" ELSE "Idle"
             summary ==
                 IF s = "completed" THEN "Ready"
                 ELSE IF s = "error" THEN "Execution failed"
                 ELSE IF s = "thinking" THEN "Executing..."
                 ELSE IF s = "warning" THEN "Completed with warnings"
                 ELSE "No recent activity"
         IN [name |-> agentName, status |-> displayStatus, summary |-> summary,
             isExecuting |-> FALSE]
    ELSE [name |-> agentName, status |-> "Idle", summary |-> "Not yet executed",
          isExecuting |-> FALSE]

\* list-agents after getAgentStatus resolved (command-parser.ts:272-317)
listAgentsStatusResolved(w, agents, statuses) ==
    LET rows == [i \in 1..Len(agents) |-> listRow(agents[i], statuses)]
    IN addLog(setDashboardAgents(w, rows), "Agent list displayed in dashboard", "success",
              "system")

\* list-agents: the inner catch branch (command-parser.ts:318-332)
listAgentsStatusRejected(w, agents) ==
    LET rows == [i \in 1..Len(agents) |->
                    [name |-> agents[i], status |-> "Unknown",
                     summary |-> "Status not available", isExecuting |-> FALSE]]
    IN addLog(setDashboardAgents(w, rows), "Agent list displayed (status unavailable)",
              "warn", "system")

\* detail (command-parser.ts:345-351); App always passes showDetailView
detailCommand(w) == showDetailView(w)

\* help (command-parser.ts:357-370)
helpCommand(w) ==
    addLogs(w, << LogEntry("GWEN Command Reference", "system", Undefined),
                  LogEntry("Connected to FastAPI backend at http://localhost:8000", "info",
                           "system"),
                  LogEntry("Auto-refresh: Every 5 minutes", "info", "system"),
                  LogEntry("", "info", Undefined),
                  LogEntry("/start-agents      - Execute all agents", "info", Undefined),
                  LogEntry("/run-agent <name>  - Execute a specific agent", "info", Undefined),
                  LogEntry("/list-agents       - List all available agents", "info",
                           Undefined),
                  LogEntry("/detail            - Browse agent results in detail view",
                           "info", Undefined),
                  LogEntry("/help              - Show this help", "info", Undefined),
                  LogEntry("/exit              - Exit GWEN", "info", Undefined),
                  LogEntry("", "info", Undefined),
                  LogEntry("Press / to open command palette", "system", Undefined) >>)

\* exit (command-parser.ts:376-379)
exitCommand(w) ==
    [addLog(w, "Shutting down GWEN...", "system", Undefined) EXCEPT !.exited = TRUE]

\* command.execute(args) for the command at index c of the registry
execute(w, c, args) ==
    CASE commands[c].name = cmdStartAgents -> executeAllAgents(w)
      [] commands[c].name = cmdRunAgent -> runAgentCommand(w, args)
      [] commands[c].name = cmdListAgents -> listAgentsCommand(w)
      [] commands[c].name = cmdDetail -> detailCommand(w)
      [] commands[c].name = cmdHelp -> helpCommand(w)
      [] OTHER -> exitCommand(w)

----------------------------------------------------------------------------
(* Keyboard handler: App useInput (part_001:111-298)                        *)

ScrollUpKeys == {"upArrow", "pageUp"}
ScrollDownKeys == {"downArrow", "pageDown"}
ScrollKeys == ScrollUpKeys \cup ScrollDownKeys \cup {"home", "end"}

\* Keys other than printable characters; a character key is "char" with its input
SpecialKeys ==
    ScrollKeys \cup {"escape", "return", "backspace", "leftArrow", "rightArrow",
                     "tab", "shiftTab", "ctrlC"}

\* Detail view navigation (part_001:113-140)
\* A detail view that any other key closes
detailInputLeaveOnAnyKey(w, key) ==
    IF key \in {"leftArrow", "shiftTab"}
    THEN [w EXCEPT !.state.selectedAgentIndex = Max(0, @ - 1)]
    ELSE IF key \in {"rightArrow", "tab"}
    THEN [w EXCEPT !.state.selectedAgentIndex =
                       Min(Len(w.state.agentResults) - 1, @ + 1)]
    ELSE [w EXCEPT !.state.viewMode = "main", !.state.selectedAgentIndex = 0]

detailInput(w, key) ==
    IF key = "escape"
    THEN [w EXCEPT !.state.viewMode = "main", !.state.selectedAgentIndex = 0]
    ELSE IF key \in {"leftArrow", "shiftTab"}
    THEN [w EXCEPT !.state.selectedAgentIndex = Max(0, @ - 1)]
    ELSE IF key \in {"rightArrow", "tab"}
    THEN [w EXCEPT !.state.selectedAgentIndex =
                       Min(Len(w.state.agentResults) - 1, @ + 1)]
    ELSE w

\* A handler without the execution guard
ignoreInputNever(st) == FALSE

\* "Ignore input during execution" (part_001:142-145)
ignoreInput(st) == st.isExecuting

\* Scrolling that keeps the offset it computed when scrolling down reaches
\* the tail
scrollInputNoSnap(w, key) ==
    LET maxHeight == LogFeedHeight
        totalLogs == Len(w.state.logs)
        prev == w.state.scrollOffset
    IN  IF key \in ScrollUpKeys
        THEN LET scrollAmount == IF key = "pageUp" THEN PageScroll ELSE LineScroll
                 currentOffset == IF prev = 0 THEN Max(0, totalLogs - maxHeight) ELSE prev
             IN [w EXCEPT !.state.scrollOffset = Max(0, currentOffset - scrollAmount)]
        ELSE IF key \in ScrollDownKeys
        THEN LET scrollAmount == IF key = "pageDown" THEN PageScroll ELSE LineScroll
                 maxOffset == Max(0, totalLogs - maxHeight)
                 currentOffset == IF prev = 0 THEN maxOffset ELSE prev
             IN [w EXCEPT !.state.scrollOffset = Min(maxOffset, currentOffset + scrollAmount)]
        ELSE [w EXCEPT !.state.scrollOffset = 0]

\* Scrolling in the main view (part_001:147-185)
\* A scroll handler whose down keys are not clamped to the tail start
scrollInputNoClamp(w, key) ==
    LET totalLogs == Len(w.state.logs)
        prev == w.state.scrollOffset
        currentOffset == IF prev = 0 THEN Max(0, totalLogs - LogFeedHeight) ELSE prev
    IN  IF key \in ScrollUpKeys
        THEN [w EXCEPT !.state.scrollOffset =
                           Max(0, currentOffset - (IF key = "pageUp" THEN PageScroll
                                                   ELSE LineScroll))]
        ELSE IF key \in ScrollDownKeys
        THEN [w EXCEPT !.state.scrollOffset =
                           currentOffset + (IF key = "pageDown" THEN PageScroll
                                            ELSE LineScroll)]
        ELSE [w EXCEPT !.state.scrollOffset = 0]

scrollInput(w, key) ==
    LET maxHeight == LogFeedHeight
        totalLogs == Len(w.state.logs)
        prev == w.state.scrollOffset
    IN  IF key \in ScrollUpKeys
        THEN LET scrollAmount == IF key = "pageUp" THEN PageScroll ELSE LineScroll
                 currentOffset == IF prev = 0 THEN Max(0, totalLogs - maxHeight) ELSE prev
             IN [w EXCEPT !.state.scrollOffset = Max(0, currentOffset - scrollAmount)]
        ELSE IF key \in ScrollDownKeys
        THEN LET scrollAmount == IF key = "pageDown" THEN PageScroll ELSE LineScroll
                 maxOffset == Max(0, totalLogs - maxHeight)
                 currentOffset == IF prev = 0 THEN maxOffset ELSE prev
                 newOffset == Min(maxOffset, currentOffset + scrollAmount)
             IN [w EXCEPT !.state.scrollOffset =
                              IF newOffset = maxOffset THEN 0 ELSE newOffset]
        ELSE [w EXCEPT !.state.scrollOffset = 0]

PaletteKeys == {"upArrow", "downArrow", "escape", "return"}

\* Command palette navigation (part_001:187-230)
paletteInput(w, key) ==
    LET filteredCommands == filterCommands(commands, w.state.inputValue)
        idx == w.state.selectedCommandIndex
    IN  IF key = "upArrow"
        THEN [w EXCEPT !.state.selectedCommandIndex = Max(0, @ - 1)]
        ELSE IF key = "downArrow"
        THEN [w EXCEPT !.state.selectedCommandIndex =
                           Min(Len(filteredCommands) - 1, @ + 1)]
        ELSE IF key = "escape"
        THEN [w EXCEPT !.state.showCommandPalette = FALSE,
                       !.state.inputValue = <<>>,
                       !.state.selectedCommandIndex = 0]
        ELSE IF idx >= 0 /\ idx < Len(filteredCommands)
             THEN [w EXCEPT !.state.inputValue =
                                <<"/">> \o filteredCommands[idx + 1].name \o <<" ">>,
                            !.state.showCommandPalette = FALSE,
                            !.state.selectedCommandIndex = 0]
             ELSE w

\* Backspace and regular character input (part_001:232-245, 285-297)
editInput(w, newValue) ==
    LET showPalette == shouldShowCommandPalette(newValue)
    IN [w EXCEPT !.state.inputValue = newValue,
                 !.state.showCommandPalette = showPalette,
                 !.state.selectedCommandIndex = IF showPalette THEN 0 ELSE @]

\* Enter: parse, look up and execute the command (part_001:247-276)
enterInput(w) ==
    LET parsed == parseCommand(w.state.inputValue)
        c == findCommand(parsed.command)
        cleared(v) == [v EXCEPT !.state.inputValue = <<>>]
    IN  IF parsed.isNull
        THEN cleared(addLog(w, "Invalid command. Type /help for available commands",
                            "error", "system"))
        ELSE IF c = 0
        THEN cleared(addLog(w, "Unknown command: " \o Join(parsed.command), "error",
                            "system"))
        ELSE execute(cleared(w), c, parsed.args)

\* Ctrl+C (part_001:278-283)
ctrlCInput(w) == [addLog(w, "Exiting...", "system", Undefined) EXCEPT !.exited = TRUE]

\* The whole handler; input is the typed character, "" for a special key
\* A handler that serves Ctrl+C before it looks at the view mode
useInputCtrlCFirst(w, key, input) ==
    IF key = "ctrlC" THEN ctrlCInput(w)
    ELSE IF w.state.viewMode = "detail" THEN detailInput(w, key)
    ELSE IF ignoreInput(w.state) THEN w
    ELSE IF ~w.state.showCommandPalette /\ key \in ScrollKeys THEN scrollInput(w, key)
    ELSE IF w.state.showCommandPalette /\ key \in PaletteKeys THEN paletteInput(w, key)
    ELSE IF key = "backspace" THEN editInput(w, DropLast(w.state.inputValue))
    ELSE IF key = "return" THEN enterInput(w)
    ELSE IF key = "char" /\ input # ""
         THEN editInput(w, Append(w.state.inputValue, input))
    ELSE w

useInput(w, key, input) ==
    IF w.state.viewMode = "detail" THEN detailInput(w, key)
    ELSE IF ignoreInput(w.state) THEN w
    ELSE IF ~w.state.showCommandPalette /\ key \in ScrollKeys THEN scrollInput(w, key)
    ELSE IF w.state.showCommandPalette /\ key \in PaletteKeys THEN paletteInput(w, key)
    ELSE IF key = "backspace" THEN editInput(w, DropLast(w.state.inputValue))
    ELSE IF key = "return" THEN enterInput(w)
    ELSE IF key = "ctrlC" THEN ctrlCInput(w)
    ELSE IF key = "char" /\ input # ""
         THEN editInput(w, Append(w.state.inputValue, input))
    ELSE w

----------------------------------------------------------------------------
(* The refresh timer: App useEffect (part_001:80-108)                       *)

\* The interval callback (part_001:96-103).  seesExecuting is the value of
\* state.isExecuting in the render whose closure the callback holds.
intervalCallback(w, seesExecuting) ==
    IF ~seesExecuting
    THEN executeAllAgents(addLog(w, "Auto-refresh: Starting agents...", "system",
                                 Undefined))
    ELSE w

\* The effect body on the first run, isInitialized false (part_001:82-93)
mountEffect(w) ==
    LET w1 == addLog(w, "GWEN System initialized - Connected to backend", "system",
                     Undefined)
        w2 == addLog(w1, "Backend: http://localhost:8000", "info", Undefined)
        w3 == addLog(w2, "Auto-refresh: Every 5 minutes", "info", Undefined)
        w4 == addLog(w3, "Type /help for available commands", "info", Undefined)
    IN executeAllAgents(w4)

\* What a re-run of the effect does to the timer (part_001:81-82, 105-108):
\* the previous run's cleanup clears the interval, and the body creates none
\* because isInitialized is now true.
effectRerun(timer) == IF timer = "active" THEN "cleared" ELSE timer

----------------------------------------------------------------------------
(* Log viewport: OutputPanel (part_003:13-24)                               *)

\* Array.prototype.slice(start, end) with 0-based indices
Slice(s, start, end) == SubSeq(s, start + 1, end)

\* A viewport that reads offset 0 as the top of the log
startIndexTop(totalLogs, maxHeight, scrollOffset) == Max(0, scrollOffset)

startIndex(totalLogs, maxHeight, scrollOffset) ==
    IF scrollOffset = 0 THEN Max(0, totalLogs - maxHeight) ELSE Max(0, scrollOffset)

visibleLogs(logs, maxHeight, scrollOffset) ==
    LET totalLogs == Len(logs)
        start == startIndex(totalLogs, maxHeight, scrollOffset)
        endIndex == Min(totalLogs, start + maxHeight)
    IN Slice(logs, start, endIndex)

\* Index of the first log entry the log feed shows for the state st: the
\* OutputPanel window over st.logs at st.scrollOffset, at the height the
\* scroll handler assumes
windowStart(st) == startIndex(Len(st.logs), LogFeedHeight, st.scrollOffset)

\* The scroll handler runs for this keystroke: dashboard view, idle, no palette
Scrollable(st) == st.viewMode = "main" /\ ~ignoreInput(st) /\ ~st.showCommandPalette

----------------------------------------------------------------------------
(* The state machine *)

World == [state |-> state, pending |-> pending, exited |-> exited]

\* Requests that belong to an execution (a batch or a single-agent run)
ExecutionOps == {"retrieveStatus", "executeAgent", "getAgentLogs"}

InFlight(reqs) == Cardinality({i \in DOMAIN reqs : reqs[i].op \in ExecutionOps})

Remove(reqs, i) == SubSeq(reqs, 1, i - 1) \o SubSeq(reqs, i + 1, Len(reqs))

Settle(w, i) == [w EXCEPT !.pending = Remove(@, i)]

LateralKeys == {"leftArrow", "rightArrow", "tab", "shiftTab"}

KeyClass(key) ==
    IF key \in ScrollUpKeys THEN "scrollUp"
    ELSE IF key \in ScrollDownKeys THEN "scrollDown"
    ELSE IF key \in ScrollKeys THEN "jump"
    ELSE IF key \in LateralKeys THEN "lateral"
    ELSE key

\* What the last handler observed: the flag and view mode it found, whether
\* it issued an execution request and how many log entries it appended
Event(op, key, w2) ==
    [op |-> op, key |-> KeyClass(key),
     executing |-> state.isExecuting,
     viewMode |-> state.viewMode,
     started |-> InFlight(w2.pending) > InFlight(pending),
     logged |-> Len(w2.state.logs) - Len(state.logs)]

NoEvent ==
    [op |-> "init", key |-> "", executing |-> FALSE, viewMode |-> "main",
     started |-> FALSE, logged |-> 0]

\* A handler ran and left the world w2
Commit(op, key, w2) ==
    /\ Len(w2.state.logs) <= MaxLogs
    /\ Len(w2.pending) <= MaxPending
    /\ state' = w2.state
    /\ pending' = w2.pending
    /\ exited' = w2.exited
    /\ lastEvent' = Event(op, key, w2)

InitialPanel ==
    [logs |-> <<>>, maxHeight |-> LogFeedHeight, scrollOffset |-> 0, visible |-> <<>>,
     scrolled |-> FALSE]

InitialWorld == [state |-> InitialState, pending |-> <<>>, exited |-> FALSE]

\* No parseCommand call under observation
IdleParser == [input |-> <<>>, called |-> FALSE, result |-> NullCommand]

\* No aggregation under observation
IdleBoard == [summaries |-> <<>>, results |-> <<>>]

\* No local batch under observation
IdleBatch ==
    [phase |-> "idle", agents |-> <<>>, next |-> 0, runs |-> <<>>, attempted |-> <<>>]

\* No runAgent call under observation
IdleEngine ==
    [phase |-> "idle",
     config |-> [name |-> "", hasTimeout |-> FALSE, timeout |-> 0],
     work |-> [at |-> 0, kind |-> "hang", logs |-> FALSE, message |-> ""],
     delay |-> 0, timer |-> "unset", run |-> "unstarted", runs |-> 0,
     outcome |-> "none", error |-> "", logs |-> <<>>, events |-> <<>>]

Init ==
    /\ state = InitialState
    /\ isInitialized = FALSE
    /\ interval = "none"
    /\ closure = FALSE
    /\ pending = <<>>
    /\ exited = FALSE
    /\ nkeys = 0
    /\ nticks = 0
    /\ lastEvent = NoEvent
    /\ panel = InitialPanel
    /\ parser = IdleParser
    /\ engine = IdleEngine
    /\ board = IdleBoard
    /\ batch = IdleBatch

\* First run of the effect, after the first render (part_001:81-107)
Mount ==
    /\ ~isInitialized /\ ~exited
    /\ Commit("mount", "", mountEffect(World))
    /\ isInitialized' = TRUE
    /\ interval' = "active"
    /\ closure' = state.isExecuting
    /\ UNCHANGED <<nkeys, nticks, panel, parser, engine, board, batch>>

\* The effect runs again after the re-render that follows a state change
EffectRerun ==
    /\ isInitialized /\ ~exited
    /\ interval = "active"
    /\ interval' = effectRerun(interval)
    /\ lastEvent' = Event("effect", "", World)
    /\ UNCHANGED <<state, isInitialized, closure, pending, exited, nkeys, nticks, panel, parser, engine, board, batch>>

\* The interval fires
Tick ==
    /\ ~exited
    /\ interval = "active"
    /\ nticks < MaxTicks
    /\ Commit("tick", "", intervalCallback(World, closure))
    /\ nticks' = nticks + 1
    /\ UNCHANGED <<isInitialized, interval, closure, nkeys, panel, parser, engine, board, batch>>

\* The keystroke key (with typed character input) reaches useInput
Stroke(key, input) ==
    /\ isInitialized /\ ~exited
    /\ nkeys < MaxKeys
    /\ Commit("key", key, useInput(World, key, input))
    /\ nkeys' = nkeys + 1
    /\ UNCHANGED <<isInitialized, interval, closure, nticks, panel, parser, engine, board, batch>>

KeyPress ==
    \/ \E key \in SpecialKeys : Stroke(key, "")
    \/ \E input \in InputChars : Stroke("char", input)

Awaited(i, op) == i \in DOMAIN pending /\ pending[i].op = op

\* An awaited request settled and its handler ran on to its next await or end
Resume(op, w2) ==
    /\ ~exited
    /\ Commit(op, "", w2)
    /\ UNCHANGED <<isInitialized, interval, closure, nkeys, nticks, panel, parser, engine, board, batch>>

RetrieveStatusResolves ==
    \E i \in DOMAIN pending : \E report \in Reports :
        /\ Awaited(i, "retrieveStatus")
        /\ Resume("retrieveStatus:ok", executeAllAgentsResolved(Settle(World, i), report))

RetrieveStatusRejects ==
    \E i \in DOMAIN pending :
        /\ Awaited(i, "retrieveStatus")
        /\ Resume("retrieveStatus:error", executeAllAgentsRejected(Settle(World, i)))

ExecuteAgentResolves ==
    \E i \in DOMAIN pending : \E result \in ExecuteResults :
        /\ Awaited(i, "executeAgent")
        /\ Resume("executeAgent:ok",
                  runAgentExecuted(Settle(World, i), pending[i].agentName, result))

ExecuteAgentRejects ==
    \E i \in DOMAIN pending :
        /\ Awaited(i, "executeAgent")
        /\ Resume("executeAgent:error", runAgentRejected(Settle(World, i)))

GetAgentLogsResolves ==
    \E i \in DOMAIN pending : \E logs \in AgentLogs :
        /\ Awaited(i, "getAgentLogs")
        /\ Resume("getAgentLogs:ok",
                  runAgentLogsResolved(Settle(World, i), pending[i].agentName, logs))

GetAgentLogsRejects ==
    \E i \in DOMAIN pending :
        /\ Awaited(i, "getAgentLogs")
        /\ Resume("getAgentLogs:error",
                  runAgentComplete(Settle(World, i), pending[i].agentName))

GetSystemInfoResolves ==
    \E i \in DOMAIN pending : \E agents \in SystemInfos :
        /\ Awaited(i, "getSystemInfo")
        /\ Resume("getSystemInfo:ok", listAgentsInfoResolved(Settle(World, i), agents))

GetSystemInfoRejects ==
    \E i \in DOMAIN pending :
        /\ Awaited(i, "getSystemInfo")
        /\ Resume("getSystemInfo:error", listAgentsInfoRejected(Settle(World, i)))

GetAgentStatusResolves ==
    \E i \in DOMAIN pending : \E statuses \in AgentStatuses :
        /\ Awaited(i, "getAgentStatus")
        /\ Resume("getAgentStatus:ok",
                  listAgentsStatusResolved(Settle(World, i), pending[i].agents, statuses))

GetAgentStatusRejects ==
    \E i \in DOMAIN pending :
        /\ Awaited(i, "getAgentStatus")
        /\ Resume("getAgentStatus:error",
                  listAgentsStatusRejected(Settle(World, i), pending[i].agents))

Settles ==
    \/ RetrieveStatusResolves
    \/ RetrieveStatusRejects
    \/ ExecuteAgentResolves
    \/ ExecuteAgentRejects
    \/ GetAgentLogsResolves
    \/ GetAgentLogsRejects
    \/ GetSystemInfoResolves
    \/ GetSystemInfoRejects
    \/ GetAgentStatusResolves
    \/ GetAgentStatusRejects

Next ==
    \/ Mount
    \/ EffectRerun
    \/ Tick
    \/ KeyPress
    \/ Settles

Spec == Init /\ [][Next]_vars

----------------------------------------------------------------------------
(* Operator sessions.  A session starts where a run of the program stands  *)
(* after startup, the settling of the auto-started batch, the re-render    *)
(* that re-runs the effect, and a scripted run of keystrokes through       *)
(* useInput; from there keystrokes and backend responses are free.         *)

RECURSIVE runKeys(_, _)
runKeys(w, keys) ==
    IF keys = <<>> THEN w
    ELSE runKeys(IF Head(keys) \in SpecialKeys
                 THEN useInput(w, Head(keys), "")
                 ELSE useInput(w, "char", Head(keys)),
                 Tail(keys))

\* "/", then c times down, then Enter: the palette puts command c in the buffer
PaletteCommit(c) == <<"/">> \o [i \in 1..c |-> "downArrow"] \o <<"return">>

\* The help command chosen from the palette and submitted
HelpRun == PaletteCommit(4) \o <<"return">>

SessionScripts ==
    {<<>>, HelpRun}
        \cup {PaletteCommit(c) : c \in 0..(Len(commands) - 1)}
        \cup {HelpRun \o PaletteCommit(c) : c \in 0..(Len(commands) - 1)}

\* The worlds the auto-started batch can leave behind
StartupWorlds ==
    LET mounted == mountEffect(InitialWorld)
    IN {executeAllAgentsRejected(Settle(mounted, 1))}
           \cup {executeAllAgentsResolved(Settle(mounted, 1), r) : r \in Reports}

InitSession ==
    /\ \E w \in StartupWorlds : \E script \in SessionScripts :
          LET w2 == runKeys(w, script) IN
          /\ state = w2.state
          /\ pending = w2.pending
          /\ exited = w2.exited
    /\ isInitialized = TRUE
    /\ interval = effectRerun("active")
    /\ closure = FALSE
    /\ nkeys = 0
    /\ nticks = 0
    /\ lastEvent = NoEvent
    /\ panel = InitialPanel
    /\ parser = IdleParser
    /\ engine = IdleEngine
    /\ board = IdleBoard
    /\ batch = IdleBatch

NextSession ==
    \/ KeyPress
    \/ Settles

SpecSession == InitSession /\ [][NextSession]_vars

----------------------------------------------------------------------------
(* OutputPanel on its own: props drawn from small sets, re-rendered on     *)
(* every change of props                                                    *)

PanelEntry(i) == LogEntry(ToString(i), "info", Undefined)

render(p) == [p EXCEPT !.visible = visibleLogs(p.logs, p.maxHeight, p.scrollOffset)]

InitPanel ==
    /\ state = InitialState
    /\ isInitialized = FALSE
    /\ interval = "none"
    /\ closure = FALSE
    /\ pending = <<>>
    /\ exited = FALSE
    /\ nkeys = 0
    /\ nticks = 0
    /\ lastEvent = NoEvent
    /\ \E h \in 1..MaxPanelHeight : panel = render([InitialPanel EXCEPT !.maxHeight = h])
    /\ parser = IdleParser
    /\ engine = IdleEngine
    /\ board = IdleBoard
    /\ batch = IdleBatch

\* The parent appends a log entry
PanelAppend ==
    /\ Len(panel.logs) < MaxPanelLogs
    /\ panel' = render([panel EXCEPT !.logs = Append(@, PanelEntry(Len(@) + 1))])
    /\ UNCHANGED <<appVars, parser, engine, board, batch>>

\* The parent passes another scroll offset
PanelScroll ==
    /\ \E offset \in 0..MaxPanelLogs :
          /\ offset # panel.scrollOffset
          /\ panel' = render([panel EXCEPT !.scrollOffset = offset, !.scrolled = TRUE])
    /\ UNCHANGED <<appVars, parser, engine, board, batch>>

NextPanel ==
    \/ PanelAppend
    \/ PanelScroll

SpecPanel == InitPanel /\ [][NextPanel]_vars

----------------------------------------------------------------------------
(* parseCommand on its own: called once on an input drawn from the strings  *)
(* of bounded length over a small alphabet                                  *)

ParseChars == {"/", " ", "a", "b"}

ParseInputs == UNION {[1..n -> ParseChars] : n \in 0..MaxInputLen}

AppUnmounted ==
    /\ state = InitialState
    /\ isInitialized = FALSE
    /\ interval = "none"
    /\ closure = FALSE
    /\ pending = <<>>
    /\ exited = FALSE
    /\ nkeys = 0
    /\ nticks = 0
    /\ lastEvent = NoEvent

InitParse ==
    /\ AppUnmounted
    /\ panel = InitialPanel
    /\ engine = IdleEngine
    /\ board = IdleBoard
    /\ batch = IdleBatch
    /\ \E input \in ParseInputs : parser = [IdleParser EXCEPT !.input = input]

Parse ==
    /\ ~parser.called
    /\ parser' = [parser EXCEPT !.called = TRUE, !.result = parseCommand(parser.input)]
    /\ UNCHANGED <<appVars, panel, engine, board, batch>>

SpecParse == InitParse /\ [][Parse]_vars

----------------------------------------------------------------------------
(* Editing the input buffer: after startup the operator types characters   *)
(* (whitespace among them), erases them and works the command palette      *)

EditChars == {"/", " ", "h"}

Type == \E input \in EditChars : Stroke("char", input)

Erase == Stroke("backspace", "")

PaletteKey == \E key \in PaletteKeys \ {"return"} : Stroke(key, "")

PaletteSelect == state.showCommandPalette /\ Stroke("return", "")

InitEdit ==
    /\ \E w \in StartupWorlds :
          /\ state = w.state
          /\ pending = w.pending
          /\ exited = w.exited
    /\ isInitialized = TRUE
    /\ interval = effectRerun("active")
    /\ closure = FALSE
    /\ nkeys = 0
    /\ nticks = 0
    /\ lastEvent = NoEvent
    /\ panel = InitialPanel
    /\ parser = IdleParser
    /\ engine = IdleEngine
    /\ board = IdleBoard
    /\ batch = IdleBatch

NextEdit ==
    \/ Type
    \/ Erase
    \/ PaletteKey
    \/ PaletteSelect

SpecEdit == InitEdit /\ [][NextEdit]_vars

\* The keystroke reaches the branches below the execution guard
Editable(st) == st.viewMode = "main" /\ ~ignoreInput(st)

----------------------------------------------------------------------------
(* The dashboard aggregation on its own (command-parser.ts:87-140): the     *)
(* agent summaries of one report are drawn from small sets, one summary     *)
(* over every combination of the fields the derivation reads, or a short    *)
(* list of the fixture summaries; the derivation is applied up to twice     *)

AgentSummaries ==
    {[agent_name |-> "aws", status |-> "completed", summary |-> text,
      has_execution_time |-> FALSE,
      key_metrics |->
          [defined |-> TRUE,
           keys |-> {"indicator", "status", "current_incidents", "current_events",
                     "unresolved_incidents", "recent_incidents_7d", "recent_events_7d"},
           indicator |-> indicator, status |-> status,
           current_incidents |-> c[1], current_events |-> c[2],
           unresolved_incidents |-> c[3], recent_incidents_7d |-> c[4],
           recent_events_7d |-> c[5]]] :
        text \in {"", "All good"},
        indicator \in {"none", "minor", "major", "critical", "maintenance", Undefined},
        status \in {"completed", "error"},
        c \in [1..5 -> 0..MaxCount]}
      \cup {[SummaryAws EXCEPT !.summary = text] : text \in {"", "All good"}}

InitRow ==
    /\ AppUnmounted
    /\ panel = InitialPanel
    /\ parser = IdleParser
    /\ engine = IdleEngine
    /\ batch = IdleBatch
    /\ \E summaries \in {<<a>> : a \in AgentSummaries}
                          \cup UNION {[1..n -> {SummaryAws, SummaryGcp}] : n \in 0..MaxRows} :
          board = [IdleBoard EXCEPT !.summaries = summaries]

\* report.agent_summaries.map(...) is evaluated
Aggregate ==
    /\ Len(board.results) < 2
    /\ board' = [board EXCEPT !.results = Append(@, aggregate(board.summaries))]
    /\ UNCHANGED <<appVars, panel, parser, engine, batch>>

SpecRow == InitRow /\ [][Aggregate]_vars

----------------------------------------------------------------------------
(* The execution engine: runAgent (AgentDetailView.tsx:151-181).  One call  *)
(* races the agent's work against a timer.  The agent is given by when its  *)
(* work settles, how, and whether it writes to the log sink as the example  *)
(* agent does (agents/service-status/index.js:7-34).                        *)

TimeoutMessage == "Agent execution timeout"

\* config.timeout || 30000
timeoutOf(config) ==
    IF config.hasTimeout /\ config.timeout # 0 THEN config.timeout ELSE DefaultTimeout

\* logCallback / context.log: by tells the engine's lines from the agent's
sink(e, by, message, level) ==
    [e EXCEPT !.logs = Append(@, [by |-> by, level |-> level, message |-> message])]

\* agent.run up to its first await
agentRunStart(e) ==
    LET e1 == [e EXCEPT !.run = "pending", !.runs = @ + 1]
    IN IF e.work.logs THEN sink(e1, "agent", "Checking service status...", "info") ELSE e1

\* agent.run as it settles
agentRunSettle(e, kind) ==
    LET e1 == [e EXCEPT !.run = "settled"]
    IN IF ~e.work.logs THEN e1
       ELSE IF kind = "resolved"
            THEN sink(e1, "agent", "Service status check complete", "success")
            ELSE sink(e1, "agent", "Error checking services: " \o e.work.message, "error")

\* runAgent up to its await of the race (lines 161-173)
runAgentStart(e) ==
    LET e1 == sink(e, "engine", "Starting agent: " \o e.config.name, "system")
        e2 == [e1 EXCEPT !.delay = timeoutOf(e.config), !.timer = "armed"]
        e3 == agentRunStart(e2)
    IN [e3 EXCEPT !.phase = "racing"]

\* A race in which the last promise to settle decides
raceSettledLast(e, kind, message) ==
    IF kind = "resolved"
    THEN [sink(e, "engine", "Agent completed: " \o e.config.name, "success")
             EXCEPT !.phase = "done", !.outcome = "resolved", !.error = ""]
    ELSE [sink(e, "engine", "Agent failed: " \o message, "error")
             EXCEPT !.phase = "done", !.outcome = "rejected", !.error = message]

\* A catch branch that rethrows without logging
raceSettledQuiet(e, kind, message) ==
    IF e.phase # "racing" THEN e
    ELSE IF kind = "resolved"
    THEN [sink(e, "engine", "Agent completed: " \o e.config.name, "success")
             EXCEPT !.phase = "done", !.outcome = "resolved"]
    ELSE [e EXCEPT !.phase = "done", !.outcome = "rejected", !.error = message]

\* An engine that runs the agent again after a failure
raceSettledRetry(e, kind, message) ==
    IF e.phase # "racing" THEN e
    ELSE IF kind = "resolved"
    THEN [sink(e, "engine", "Agent completed: " \o e.config.name, "success")
             EXCEPT !.phase = "done", !.outcome = "resolved"]
    ELSE [sink(e, "engine", "Agent failed: " \o message, "error")
             EXCEPT !.phase = "done", !.outcome = "rejected", !.error = message,
                    !.runs = @ + 1]

\* A timer whose rejection is logged whenever it fires
raceSettledLateError(e, kind, message) ==
    IF e.phase # "racing"
    THEN IF kind = "timeout" THEN sink(e, "engine", "Agent failed: " \o message, "error")
         ELSE e
    ELSE IF kind = "resolved"
    THEN [sink(e, "engine", "Agent completed: " \o e.config.name, "success")
             EXCEPT !.phase = "done", !.outcome = "resolved"]
    ELSE [sink(e, "engine", "Agent failed: " \o message, "error")
             EXCEPT !.phase = "done", !.outcome = "rejected", !.error = message]

\* One of the raced promises settled (lines 170-180): the first to settle
\* settles the race and runAgent runs on to its end; later ones are ignored
raceSettled(e, kind, message) ==
    IF e.phase # "racing" THEN e
    ELSE IF kind = "resolved"
    THEN [sink(e, "engine", "Agent completed: " \o e.config.name, "success")
             EXCEPT !.phase = "done", !.outcome = "resolved"]
    ELSE [sink(e, "engine", "Agent failed: " \o message, "error")
             EXCEPT !.phase = "done", !.outcome = "rejected", !.error = message]

occurred(e, kind, at) == [e EXCEPT !.events = Append(@, [kind |-> kind, at |-> at])]

\* What an event of the race leaves of a call e, as a set: empty when the
\* event cannot happen now.  The work settles at its time unless the armed
\* timer is due earlier; the timer fires at its delay unless the pending work
\* is due earlier; events due at the same instant happen in either order.
raceEvent(e, kind) ==
    IF kind = "timeout"
    THEN IF /\ e.timer = "armed"
            /\ (e.run = "pending" /\ e.work.kind # "hang") => e.delay <= e.work.at
         THEN {raceSettled(occurred([e EXCEPT !.timer = "fired"], "timeout", e.delay),
                           "timeout", TimeoutMessage)}
         ELSE {}
    ELSE IF /\ e.run = "pending"
            /\ e.work.kind = kind
            /\ e.timer = "armed" => e.work.at <= e.delay
         THEN {raceSettled(occurred(agentRunSettle(e, kind), kind, e.work.at),
                           kind, e.work.message)}
         ELSE {}

AgentConfigs ==
    {[name |-> "service-status", hasTimeout |-> FALSE, timeout |-> 0]}
        \cup {[name |-> "service-status", hasTimeout |-> TRUE, timeout |-> t] :
                  t \in 0..MaxTimeout}

WorkTimes == (1..MaxWorkTime) \cup {DefaultTimeout - 1, DefaultTimeout, DefaultTimeout + 1}

AgentWorks ==
    {[at |-> t, kind |-> k, logs |-> l, message |-> IF k = "rejected" THEN "boom" ELSE ""] :
        t \in WorkTimes, k \in {"resolved", "rejected", "hang"}, l \in BOOLEAN}

InitEngine ==
    /\ AppUnmounted
    /\ panel = InitialPanel
    /\ parser = IdleParser
    /\ \E config \in AgentConfigs : \E work \in AgentWorks :
          engine = [IdleEngine EXCEPT !.config = config, !.work = work]
    /\ board = IdleBoard
    /\ batch = IdleBatch

\* runAgent is called
RunAgent ==
    /\ engine.phase = "idle"
    /\ engine' = runAgentStart(engine)
    /\ UNCHANGED <<appVars, panel, parser, board, batch>>

\* The agent's work resolves
WorkResolves ==
    /\ engine' \in raceEvent(engine, "resolved")
    /\ UNCHANGED <<appVars, panel, parser, board, batch>>

\* The agent's work rejects
WorkRejects ==
    /\ engine' \in raceEvent(engine, "rejected")
    /\ UNCHANGED <<appVars, panel, parser, board, batch>>

\* The timer fires
TimerFires ==
    /\ engine' \in raceEvent(engine, "timeout")
    /\ UNCHANGED <<appVars, panel, parser, board, batch>>

NextEngine ==
    \/ RunAgent
    \/ WorkResolves
    \/ WorkRejects
    \/ TimerFires

SpecEngine == InitEngine /\ [][NextEngine]_vars

----------------------------------------------------------------------------
(* The local batch: run-agent --auto of the local command set               *)
(* (part_005:26-55).  The handler works through the setters of App's state; *)
(* batch holds its own position: the agents discovered, the one in turn,    *)
(* the loadAgent calls made and one runAgent call per agent.  An agent is   *)
(* a descriptor, whether its module loads, and its work.  A call of an      *)
(* earlier agent that lost its race to the timer, or whose timer is still   *)
(* armed, goes on having events while later agents run.                     *)

\* The agents a directory can hold at position i
LocalAgents(i) ==
    LET name == "agent" \o ToString(i)
        agent(loads, timeout, at, kind) ==
            [config |-> [name |-> name, hasTimeout |-> timeout # 0, timeout |-> timeout],
             loads |-> loads,
             work |-> [at |-> at, kind |-> kind, logs |-> TRUE,
                       message |-> IF kind = "rejected" THEN "boom" ELSE ""]]
    IN {agent(FALSE, 0, 1, "resolved"),
        agent(TRUE, 0, 1, "resolved"),
        agent(TRUE, 0, 1, "rejected"),
        agent(TRUE, 1, 2, "resolved"),
        agent(TRUE, 1, 1, "hang")}

\* The lines a runAgent call wrote since it was e1, as the sink of the batch
\* tags them: addLog(msg, level, agentConfig.name)
sinkLines(e1, e2) ==
    [i \in 1..(Len(e2.logs) - Len(e1.logs)) |->
        LogEntry(e2.logs[Len(e1.logs) + i].message, e2.logs[Len(e1.logs) + i].level,
                 e2.config.name)]

\* A loop that a failed agent ends, as an uncaught error would
nextAgentUnlessFailed(w, b) ==
    IF /\ b.next >= 1
       /\ (~b.agents[b.next].loads \/ b.runs[b.next].outcome = "rejected")
    THEN [w |-> w, b |-> [b EXCEPT !.phase = "done"]]
    ELSE IF b.next < Len(b.agents)
    THEN [w |-> setCurrentAgent(w, b.agents[b.next + 1].config.name),
          b |-> [b EXCEPT !.phase = "loading", !.next = @ + 1,
                          !.attempted = Append(@, b.agents[b.next + 1].config.name)]]
    ELSE [w |-> addLog(setCurrentAgent(w, Undefined), "Auto-run complete", "success",
                       "system"),
          b |-> [b EXCEPT !.phase = "done"]]

\* The for loop moves on from agent b.next: the next iteration up to its
\* await of loadAgent, or the end of the handler
nextAgent(w, b) ==
    IF b.next < Len(b.agents)
    THEN [w |-> setCurrentAgent(w, b.agents[b.next + 1].config.name),
          b |-> [b EXCEPT !.phase = "loading", !.next = @ + 1,
                          !.attempted = Append(@, b.agents[b.next + 1].config.name)]]
    ELSE [w |-> addLog(setCurrentAgent(w, Undefined), "Auto-run complete", "success",
                       "system"),
          b |-> [b EXCEPT !.phase = "done"]]

\* A handler of the batch ran and left the world w2
BatchCommit(op, w2, b2) ==
    /\ Commit(op, "", w2)
    /\ batch' = b2
    /\ UNCHANGED <<isInitialized, interval, closure, nkeys, nticks, panel, parser, engine,
                   board>>

InitBatch ==
    /\ AppUnmounted
    /\ panel = InitialPanel
    /\ parser = IdleParser
    /\ engine = IdleEngine
    /\ board = IdleBoard
    /\ \E n \in 0..MaxAgents : \E agents \in [1..n -> UNION {LocalAgents(i) : i \in 1..n}] :
          /\ \A i \in 1..n : agents[i] \in LocalAgents(i)
          /\ batch = [IdleBatch EXCEPT !.agents = agents]

\* run-agent --auto is executed, up to its await of discoverAgents
AutoRun ==
    /\ batch.phase = "idle"
    /\ BatchCommit("run-agent --auto",
                   addLog(World, "Auto-running all agents...", "system", Undefined),
                   [batch EXCEPT !.phase = "discovering"])

\* discoverAgents resolved
Discovered ==
    /\ batch.phase = "discovering"
    /\ LET n == nextAgent(World, batch) IN BatchCommit("discoverAgents", n.w, n.b)

\* loadAgent resolved, with the module or with null
Loaded ==
    /\ batch.phase = "loading"
    /\ LET agent == batch.agents[batch.next]
           e0 == [IdleEngine EXCEPT !.config = agent.config, !.work = agent.work]
           e1 == runAgentStart(e0)
           skipped == nextAgent(addLog(World, "Failed to load agent: " \o agent.config.name,
                                       "error", agent.config.name),
                                [batch EXCEPT !.runs = Append(@, e0)])
       IN IF ~agent.loads
          THEN BatchCommit("loadAgent:null", skipped.w, skipped.b)
          ELSE BatchCommit("loadAgent:ok",
                           addLogs(setExecuting(World, TRUE), sinkLines(e0, e1)),
                           [batch EXCEPT !.phase = "running", !.runs = Append(@, e1)])

\* An event of one of the runAgent calls made so far: its lines reach the
\* log; when it settles the race the handler awaits, the loop moves on
RaceEvent ==
    \E k \in DOMAIN batch.runs : \E kind \in {"resolved", "rejected", "timeout"} :
        \E e2 \in raceEvent(batch.runs[k], kind) :
            LET w1 == addLogs(World, sinkLines(batch.runs[k], e2))
                b1 == [batch EXCEPT !.runs[k] = e2]
                n == nextAgent(setExecuting(w1, FALSE), b1)
            IN IF batch.runs[k].phase = "racing"
               THEN BatchCommit("runAgent:settled", n.w, n.b)
               ELSE BatchCommit("runAgent:late", w1, b1)

\* The awaited promises settle and the timers fire: once started, the
\* handler is not left waiting for ever
SpecBatch ==
    /\ InitBatch
    /\ [][AutoRun \/ Discovered \/ Loaded \/ RaceEvent]_vars
    /\ WF_vars(Discovered \/ Loaded \/ RaceEvent)

----------------------------------------------------------------------------
(* Properties *)

C4_TimerStaysActive == (isInitialized /\ ~exited) => interval = "active"

\* C5: submitting the detail command while the agent result set is empty
\* leaves the view mode unchanged (dashboard) and appends a warning to the
\* log feed, so detail mode is not entered with an empty result set.
C5_DetailOnEmptyResultsWarns ==
    [][ LET parsed == parseCommand(state.inputValue)
            c == findCommand(parsed.command)
        IN  ( /\ state.viewMode = "main"
              /\ ~ignoreInput(state)
              /\ ~state.showCommandPalette
              /\ ~parsed.isNull
              /\ c # 0
              /\ commands[c].name = cmdDetail
              /\ state.agentResults = <<>>
              /\ Stroke("return", "") )
            => /\ state'.viewMode = "main"
               /\ Len(state'.logs) = Len(state.logs) + 1
               /\ state'.logs[Len(state'.logs)].level = "warn" ]_vars

\* C6: in every reachable state the selected detail index lies in
\* [0, len(agentResults)-1]; it is never negative and never past the last
\* result, whatever navigation, view switches and batch completions occurred.
C6_SelectedIndexInRange ==
    /\ state.selectedAgentIndex >= 0
    /\ Len(state.agentResults) > 0
           => state.selectedAgentIndex <= Len(state.agentResults) - 1

\* C7: a scroll key (up, down, PgUp, PgDn, Home, End) pressed in the
\* dashboard view while executing is true changes the scroll offset exactly
\* as the scroll handler would when idle.
C7_ScrollWhileExecuting ==
    [][ \A key \in ScrollKeys :
            ( /\ state.viewMode = "main"
              /\ state.isExecuting
              /\ ~state.showCommandPalette
              /\ Stroke(key, "") )
            => state'.scrollOffset = scrollInput(World, key).state.scrollOffset ]_vars

\* C8: Enter on the input buffer while an execution is in flight starts no
\* execution and leaves the in-flight execution as it was: the awaited
\* requests and the application state are unchanged.
C8_EnterWhileExecutingStartsNothing ==
    [][ (state.isExecuting /\ Stroke("return", ""))
            => (pending' = pending /\ state' = state) ]_vars

\* C8 witness: Enter was pressed in the dashboard view during an execution
\* while the buffer held a registered command with an execution in flight
C8_EnterPressedWhileExecuting ==
    /\ lastEvent.op = "key" /\ lastEvent.key = "return"
    /\ lastEvent.executing /\ lastEvent.viewMode = "main"
    /\ InFlight(pending) > 0
    /\ LET parsed == parseCommand(state.inputValue)
       IN ~parsed.isNull /\ findCommand(parsed.command) = 1

\* C9: the log sequence is append-only: every step leaves the earlier log
\* sequence as a prefix of the new one; no entry is removed, reordered or
\* edited.
C9_LogsAppendOnly ==
    [][ /\ Len(state'.logs) >= Len(state.logs)
        /\ SubSeq(state'.logs, 1, Len(state.logs)) = state.logs ]_vars

\* C9 witness: after keystrokes were handled, a handler other than the
\* startup effect appended to a log that holds ten entries or more
C9_LogGrewAfterManyOperations ==
    /\ Len(state.logs) >= 10
    /\ lastEvent.logged > 0
    /\ lastEvent.op \notin {"init", "mount"}
    /\ nkeys > 0

\* C10: with the scroll offset at the tracking sentinel 0, the visible window
\* for height H over N entries is exactly the last min(N, H) entries in
\* insertion order.
C10_TailWindowAtOffsetZero ==
    LET n == Len(panel.logs)
        k == Min(n, panel.maxHeight)
        lastEntries == [i \in 1..k |-> panel.logs[n - k + i]]
    IN panel.scrollOffset = 0 => panel.visible = lastEntries

\* C10 witness: more entries than the height were appended with no scroll
\* action, and the panel rendered at offset 0
C10_OverflowWithoutScroll ==
    /\ ~panel.scrolled
    /\ panel.scrollOffset = 0
    /\ Len(panel.logs) > panel.maxHeight
    /\ Len(panel.visible) = panel.maxHeight

\* C11: every scroll-up by k (1 for the up arrow, 5 for PgUp) moves the start
\* of the visible window from its current start s to max(0, s - k), where s
\* is the tail start when the offset is the tracking sentinel; the window
\* never jumps elsewhere, also when the step reaches the oldest entry.
C11_ScrollUpStepsBack ==
    [][ \A key \in ScrollUpKeys :
            (Scrollable(state) /\ Stroke(key, ""))
            => windowStart(state')
                   = Max(0, windowStart(state)
                             - (IF key = "pageUp" THEN PageScroll ELSE LineScroll)) ]_vars

\* C12: every scroll-down by k moves the window start to min(maxStart, s + k)
\* with maxStart = max(0, N - H), and when the result equals maxStart the
\* offset is stored as the sentinel 0, so that tracking resumes.
C12_ScrollDownClampsAndSnaps ==
    [][ \A key \in ScrollDownKeys :
            (Scrollable(state) /\ Stroke(key, ""))
            => LET k == IF key = "pageDown" THEN PageScroll ELSE LineScroll
                   maxStart == Max(0, Len(state.logs) - LogFeedHeight)
                   target == Min(maxStart, windowStart(state) + k)
               IN /\ windowStart(state') = target
                  /\ target = maxStart => state'.scrollOffset = 0 ]_vars

\* C12 witness: a scroll-down moved a scrolled-back window forward to a
\* start still short of the tail
C12_ScrolledDownShortOfTail ==
    /\ lastEvent.op = "key" /\ lastEvent.key = "scrollDown"
    /\ lastEvent.viewMode = "main" /\ ~lastEvent.executing
    /\ state.scrollOffset > 1
    /\ state.scrollOffset < Max(0, Len(state.logs) - LogFeedHeight)

\* C13: Home jumps the viewport to the top of the buffer (the visible window
\* starts at the oldest entry) and End jumps to the bottom (the tail); with
\* more than H entries the two produce different visible windows.
C13_HomeJumpsToTop ==
    [][ (Scrollable(state) /\ Len(state.logs) > LogFeedHeight /\ Stroke("home", ""))
            => /\ windowStart(state') = 0
               /\ windowStart(state') # windowStart(scrollInput(World, "end").state) ]_vars

\* C14 (as stated): for every input string that does not start with the
\* prefix character '/', parseCommand returns none, including strings whose
\* first character is whitespace followed by '/'.
C14_NoPrefixYieldsNone ==
    (parser.called /\ ~(parser.input # <<>> /\ parser.input[1] = "/"))
        => parser.result.isNull

\* C14 (amended): for every input string whose first non-whitespace
\* character is not '/', or that has no such character, parseCommand returns
\* none; leading whitespace before the prefix is ignored.
C14_NoPrefixAfterWhitespaceYieldsNone ==
    LET input == parser.input
        solid == {i \in 1..Len(input) : input[i] \notin Whitespace}
        first == CHOOSE i \in solid : \A j \in solid : i <= j
    IN (parser.called /\ (solid = {} \/ input[first] # "/"))
           => parser.result.isNull

\* C14 witness: parseCommand returned none for an input that has leading
\* whitespace, another first character than '/', and a '/' further on
C14_ParsedNonCommandText ==
    /\ parser.called
    /\ parser.result.isNull
    /\ Len(parser.input) >= 3
    /\ parser.input[1] \in Whitespace
    /\ parser.input[2] \notin Whitespace \cup {"/"}
    /\ \E i \in 3..Len(parser.input) : parser.input[i] = "/"

\* C15: for every input of the form '/<name> <args>' parseCommand returns
\* the first whitespace-delimited token after the prefix as the command name
\* and the remaining tokens as the arguments: the maximal whitespace-free
\* runs of the text after the prefix, in their order, none of them empty.
C15_TokensAreWhitespaceRuns ==
    LET input == parser.input
        t == Tail(input)
        starts == {i \in 1..Len(t) :
                      t[i] \notin Whitespace /\ (i = 1 \/ t[i - 1] \in Whitespace)}
        runEnd(i) == CHOOSE e \in i..Len(t) :
                         /\ \A j \in i..e : t[j] \notin Whitespace
                         /\ e = Len(t) \/ t[e + 1] \in Whitespace
        nth(j) == CHOOSE i \in starts : Cardinality({x \in starts : x < i}) = j - 1
        expected == [j \in 1..Cardinality(starts) |-> SubSeq(t, nth(j), runEnd(nth(j)))]
    IN ( /\ parser.called
         /\ Len(input) >= 2
         /\ input[1] = "/"
         /\ input[2] \notin Whitespace )
       => /\ ~parser.result.isNull
          /\ <<parser.result.command>> \o parser.result.args = expected
          /\ \A j \in 1..Len(expected) : expected[j] # <<>>

\* C15 witness: a command with two different arguments, separated from the
\* name by a run of whitespace, was parsed
C15_ParsedTwoArguments ==
    /\ parser.called
    /\ ~parser.result.isNull
    /\ parser.input[1] = "/"
    /\ Len(parser.result.args) = 2
    /\ parser.result.args[1] # parser.result.args[2]
    /\ parser.result.command # <<>>

\* C16: submitting text that resolves to no registered command (text that
\* does not parse, or a name that is neither a command name nor an alias)
\* appends exactly one error-level log entry, clears the input buffer,
\* invokes no handler and leaves view mode, executing flag, results and
\* dashboard rows unchanged; a name equal to a command's name or to one of
\* its aliases invokes exactly that command.
C16_LookupByNameOrAlias ==
    [][ (Editable(state) /\ ~state.showCommandPalette /\ Stroke("return", ""))
        => LET input == state.inputValue
               parsed == parseCommand(input)
               named == {i \in 1..Len(commands) :
                            \/ commands[i].name = parsed.command
                            \/ \E a \in 1..Len(commands[i].aliases) :
                                   commands[i].aliases[a] = parsed.command}
           IN IF parsed.isNull \/ named = {}
              THEN /\ Len(state'.logs) = Len(state.logs) + 1
                   /\ SubSeq(state'.logs, 1, Len(state.logs)) = state.logs
                   /\ state'.logs[Len(state'.logs)].level = "error"
                   /\ state'.inputValue = <<>>
                   /\ pending' = pending
                   /\ exited' = exited
                   /\ state'.viewMode = state.viewMode
                   /\ state'.isExecuting = state.isExecuting
                   /\ state'.agentResults = state.agentResults
                   /\ state'.dashboardAgents = state.dashboardAgents
              ELSE \E i \in named :
                       LET ran == execute([World EXCEPT !.state.inputValue = <<>>],
                                          i, parsed.args)
                       IN /\ state' = ran.state
                          /\ pending' = ran.pending
                          /\ exited' = ran.exited ]_vars

\* C16 witness: Enter on a buffer holding '/hh', which names no command and
\* no alias, was reported as one error entry and the buffer was cleared
C16_UnknownCommandReported ==
    /\ lastEvent.op = "key" /\ lastEvent.key = "return"
    /\ lastEvent.viewMode = "main" /\ ~lastEvent.executing
    /\ lastEvent.logged = 1
    /\ state.logs[Len(state.logs)].message = "Unknown command: hh"
    /\ state.logs[Len(state.logs)].level = "error"
    /\ state.inputValue = <<>>

\* C17 (as stated): after a keystroke that edits the input buffer (a typed
\* character or backspace) the command palette is open exactly when the
\* resulting buffer equals the single character '/', with no leading or
\* trailing whitespace.
C17_PaletteOpenIffSlash ==
    [][ (Editable(state) /\ (Type \/ Erase))
            => (state'.showCommandPalette <=> state'.inputValue = <<"/">>) ]_vars

\* C17 (amended): after a keystroke that edits the input buffer the command
\* palette is open exactly when the resulting buffer holds one '/' and
\* nothing else but whitespace before or after it.
C17_PaletteOpenIffSlashAmongWhitespace ==
    [][ (Editable(state) /\ (Type \/ Erase))
            => LET buffer == state'.inputValue
                   solid == {i \in 1..Len(buffer) : buffer[i] \notin Whitespace}
               IN state'.showCommandPalette
                      <=> (Cardinality(solid) = 1 /\ \A i \in solid : buffer[i] = "/") ]_vars

\* C17 witness: an edit left the palette open on a buffer that holds
\* whitespace around the '/'
C17_PaletteOpenWithWhitespace ==
    /\ lastEvent.op = "key" /\ lastEvent.key \in {"char", "backspace"}
    /\ lastEvent.viewMode = "main" /\ ~lastEvent.executing
    /\ state.showCommandPalette
    /\ Len(state.inputValue) >= 3
    /\ state.inputValue[1] \in Whitespace
    /\ state.inputValue[Len(state.inputValue)] \in Whitespace

\* C18: once open, the command palette stays open while further characters
\* are typed, showing the registry filtered by the typed text; it closes only
\* on Esc or on Enter, and Enter sets the input buffer to '/' + the selected
\* command name + one trailing space.
C18_PaletteStaysOpenWhileTyping ==
    [][ (Editable(state) /\ state.showCommandPalette)
        => /\ \A input \in InputChars :
                  Stroke("char", input) => state'.showCommandPalette
           /\ Stroke("return", "")
                  => LET shown == filterCommands(commands, state.inputValue)
                         selected == shown[state.selectedCommandIndex + 1]
                     IN /\ ~state'.showCommandPalette
                        /\ state'.inputValue = <<"/">> \o selected.name \o <<" ">> ]_vars

\* C19: the outcome of one runAgent call is decided by whichever happens
\* first: the work resolves (success), the work rejects (failure carrying the
\* work's own error message), or the timeout derived from the descriptor
\* (30000 when unspecified) elapses (failure with 'Agent execution timeout',
\* reported without waiting for the work); later events do not change it.
C19_FirstEventDecidesOutcome ==
    LET e == engine
        first == e.events[1]
        budget == IF e.config.hasTimeout /\ e.config.timeout > 0
                  THEN e.config.timeout ELSE 30000
    IN /\ (e.phase = "done") <=> (e.events # <<>>)
       /\ e.events # <<>> =>
             /\ first.kind = "resolved" => (e.outcome = "resolved" /\ first.at <= budget)
             /\ first.kind = "rejected" =>
                    (e.outcome = "rejected" /\ e.error = "boom" /\ first.at <= budget)
             /\ first.kind = "timeout" =>
                    /\ e.outcome = "rejected" /\ e.error = "Agent execution timeout"
                    /\ first.at = budget
                    /\ e.work.kind # "hang" => budget <= e.work.at

\* C19 witness: the timeout elapsed first and the work resolved afterwards
C19_TimeoutThenLateResolve ==
    /\ Len(engine.events) = 2
    /\ engine.events[1].kind = "timeout"
    /\ engine.events[2].kind = "resolved"
    /\ engine.events[1].at < engine.events[2].at
    /\ engine.outcome = "rejected"

\* C20: every runAgent call emits a 'starting' log line before the agent's
\* work is started and, after the race resolves, exactly one terminal line
\* from the engine: success-level if the work won, error-level otherwise;
\* never both and never none.
C20_StartingThenOneTerminalLine ==
    LET e == engine
        terminal == {i \in 1..Len(e.logs) :
                        e.logs[i].by = "engine" /\ e.logs[i].level \in {"success", "error"}}
    IN /\ e.runs > 0 =>
             /\ e.logs # <<>>
             /\ e.logs[1] = [by |-> "engine", level |-> "system",
                             message |-> "Starting agent: " \o e.config.name]
       /\ e.events = <<>> => terminal = {}
       /\ e.events # <<>> =>
             /\ Cardinality(terminal) = 1
             /\ \A i \in terminal :
                    e.logs[i].level
                        = (IF e.events[1].kind = "resolved" THEN "success" ELSE "error")

\* C20 witness: the work rejected first, writing its own error line to the
\* sink, and the timer fired afterwards
C20_RejectedThenTimerFired ==
    /\ Len(engine.events) = 2
    /\ engine.events[1].kind = "rejected"
    /\ engine.events[2].kind = "timeout"
    /\ engine.work.logs
    /\ Len(engine.logs) = 4

\* C21: when the work of an invocation resolves after its timeout budget, no
\* success-level line reaches the log through that invocation's sink after
\* the invocation's failure line.
C21_NoSuccessAfterFailureLine ==
    LET e == engine
    IN (e.events # <<>> /\ e.events[1].kind = "timeout" /\ e.work.kind = "resolved") =>
          \A i, j \in 1..Len(e.logs) :
              (i < j /\ e.logs[i].by = "engine" /\ e.logs[i].level = "error")
                  => e.logs[j].level # "success"

\* C22: the dashboard status follows this precedence, first match wins:
\* (1) indicator none/minor/major/critical gives Operational/Degraded/Major
\* Outage/Critical Outage regardless of incident counts; (2) otherwise key
\* metrics with status 'completed' and a positive current-incident count
\* (current_incidents, else current_events, else unresolved_incidents) give
\* 'Issues Detected'; (3) otherwise completed with zero current incidents
\* gives 'Operational'; (4) otherwise, including a result with no key
\* metrics, 'Unknown'.
C22_StatusPrecedence ==
    \A r \in 1..Len(board.results) : \A i \in 1..Len(board.summaries) :
        LET km == board.summaries[i].key_metrics
            status == board.results[r][i].status
            current == IF km.current_incidents # 0 THEN km.current_incidents
                       ELSE IF km.current_events # 0 THEN km.current_events
                       ELSE km.unresolved_incidents
            mapped == km.defined /\ km.indicator \in {"none", "minor", "major", "critical"}
            completed == km.defined /\ km.status = "completed"
        IN /\ mapped =>
                status = CASE km.indicator = "none" -> "Operational"
                           [] km.indicator = "minor" -> "Degraded"
                           [] km.indicator = "major" -> "Major Outage"
                           [] km.indicator = "critical" -> "Critical Outage"
           /\ (~mapped /\ completed /\ current > 0) => status = "Issues Detected"
           /\ (~mapped /\ completed /\ current = 0) => status = "Operational"
           /\ (~mapped /\ ~completed) => status = "Unknown"

\* C22 witness: no indicator, completed, the count taken from the third key
C22_IssuesFromUnresolvedCount ==
    /\ Len(board.results) = 1
    /\ Len(board.summaries) = 1
    /\ board.summaries[1].key_metrics.indicator = "maintenance"
    /\ board.summaries[1].key_metrics.current_incidents = 0
    /\ board.summaries[1].key_metrics.current_events = 0
    /\ board.summaries[1].key_metrics.unresolved_incidents = 2
    /\ board.results[1][1].status = "Issues Detected"

\* C23: the dashboard summary depends only on the key metrics' incident
\* counts, never on the indicator: a current count N > 0 gives 'N active
\* incident' with a trailing 's' exactly when N > 1; else a recent 7-day
\* count M > 0 gives 'M incident' (plus 's' when M > 1) and ' over last 7
\* days'; else 'No incidents over last 7 days'; a result with no key metrics
\* keeps its own summary field, or 'No summary available' when it is empty.
C23_SummaryFromCounts ==
    \A r \in 1..Len(board.results) : \A i \in 1..Len(board.summaries) :
        LET agent == board.summaries[i]
            km == agent.key_metrics
            summary == board.results[r][i].summary
            N == IF km.current_incidents # 0 THEN km.current_incidents
                 ELSE IF km.current_events # 0 THEN km.current_events
                 ELSE km.unresolved_incidents
            M == IF km.recent_incidents_7d # 0 THEN km.recent_incidents_7d
                 ELSE km.recent_events_7d
        IN /\ (km.defined /\ N = 1) => summary = "1 active incident"
           /\ (km.defined /\ N > 1) => summary = ToString(N) \o " active incidents"
           /\ (km.defined /\ N = 0 /\ M = 1) => summary = "1 incident over last 7 days"
           /\ (km.defined /\ N = 0 /\ M > 1) =>
                  summary = ToString(M) \o " incidents over last 7 days"
           /\ (km.defined /\ N = 0 /\ M = 0) => summary = "No incidents over last 7 days"
           /\ (~km.defined /\ agent.summary # "") => summary = agent.summary
           /\ (~km.defined /\ agent.summary = "") => summary = "No summary available"

\* C23 witness: one current event under a critical indicator, singular form
C23_SingularActiveIncident ==
    /\ Len(board.results) = 1
    /\ Len(board.summaries) = 1
    /\ board.summaries[1].key_metrics.indicator = "critical"
    /\ board.summaries[1].key_metrics.current_incidents = 0
    /\ board.summaries[1].key_metrics.current_events = 1
    /\ board.summaries[1].key_metrics.recent_incidents_7d = 2
    /\ board.results[1][1].summary = "1 active incident"

\* C24: for every result whose indicator is 'none' and whose current-incident
\* count is zero, the row has status 'Operational' and summary 'No incidents
\* over last 7 days', whatever the other key metrics are.
C24_NoneAndNoCurrentIncidents ==
    \A r \in 1..Len(board.results) : \A i \in 1..Len(board.summaries) :
        LET km == board.summaries[i].key_metrics
        IN (/\ km.defined
            /\ km.indicator = "none"
            /\ km.current_incidents = 0
            /\ km.current_events = 0
            /\ km.unresolved_incidents = 0)
               => /\ board.results[r][i].status = "Operational"
                  /\ board.results[r][i].summary = "No incidents over last 7 days"

\* C24 as amended: for every result whose indicator is 'none' and whose
\* current-incident and recent 7-day incident counts are all zero, the row
\* has status 'Operational' and summary 'No incidents over last 7 days',
\* whatever the other key metrics are.
C24_NoneAndNoIncidentsAtAll ==
    \A r \in 1..Len(board.results) : \A i \in 1..Len(board.summaries) :
        LET km == board.summaries[i].key_metrics
        IN (/\ km.defined
            /\ km.indicator = "none"
            /\ km.current_incidents = 0
            /\ km.current_events = 0
            /\ km.unresolved_incidents = 0
            /\ km.recent_incidents_7d = 0
            /\ km.recent_events_7d = 0)
               => /\ board.results[r][i].status = "Operational"
                  /\ board.results[r][i].summary = "No incidents over last 7 days"

\* C24 witness: indicator 'none', no incidents, key-metric status 'error' and
\* a summary text of the result's own
C24_OperationalDespiteErrorStatus ==
    /\ Len(board.results) = 1
    /\ Len(board.summaries) = 1
    /\ board.summaries[1].key_metrics.defined
    /\ board.summaries[1].key_metrics.indicator = "none"
    /\ board.summaries[1].key_metrics.status = "error"
    /\ board.summaries[1].summary = "All good"
    /\ \A k \in {"current_incidents", "current_events", "unresolved_incidents",
                 "recent_incidents_7d", "recent_events_7d"} :
           board.summaries[1].key_metrics[k] = 0
    /\ board.results[1][1].summary = "No incidents over last 7 days"

\* C25: a batch whose request to the remote collaborator fails (network
\* error or non-2xx response) is surfaced as a failed result in the
\* aggregated result set, in addition to an error log entry; the failure is
\* never only logged and dropped from the results.
C25_FailedBatchSurfacedInResults ==
    [][ RetrieveStatusRejects =>
            /\ \E i \in 1..Len(state'.logs) :
                   i > Len(state.logs) /\ state'.logs[i].level = "error"
            /\ \E i \in 1..Len(state'.agentResults) :
                   state'.agentResults[i].status \in {"failed", "error"} ]_vars

\* C26: in a batch over local agents, an agent that fails to load, throws or
\* times out does not abort the batch: every discovered agent is attempted
\* exactly once in discovery order, each failure produces an error log entry
\* tagged with that agent's name, and the batch always ends with its
\* completion log line.
C26_FailuresDoNotAbortBatch ==
    LET names == [i \in 1..Len(batch.agents) |-> batch.agents[i].config.name]
        complete == {i \in 1..Len(state.logs) :
                        /\ state.logs[i].message = "Auto-run complete"
                        /\ state.logs[i].level = "success"}
        failed(k) == ~batch.agents[k].loads \/ batch.runs[k].outcome = "rejected"
    IN /\ [](/\ batch.attempted = SubSeq(names, 1, Len(batch.attempted))
             /\ Len(batch.runs) <= Len(batch.attempted)
             /\ \A k \in DOMAIN batch.runs :
                   /\ batch.runs[k].config.name = names[k]
                   /\ batch.runs[k].runs = (IF batch.agents[k].loads THEN 1 ELSE 0)
                   /\ failed(k) =>
                          \E i \in 1..Len(state.logs) :
                              /\ state.logs[i].level = "error"
                              /\ state.logs[i].source = names[k]
             /\ batch.phase = "done" =>
                   /\ batch.attempted = names
                   /\ Len(batch.runs) = Len(names)
                   /\ Cardinality(complete) = 1
             /\ batch.phase # "done" => complete = {})
       /\ (batch.phase = "discovering" ~> batch.phase = "done")

\* C26 witness: a finished batch of three agents of which the first did not
\* load, the second timed out and the third threw
C26_BatchOfThreeFailuresCompleted ==
    /\ batch.phase = "done"
    /\ Len(batch.agents) = 3
    /\ ~batch.agents[1].loads
    /\ batch.runs[2].events # <<>> /\ batch.runs[2].events[1].kind = "timeout"
    /\ batch.runs[3].events # <<>> /\ batch.runs[3].events[1].kind = "rejected"
    /\ \E i \in 1..Len(state.logs) : state.logs[i].message = "Auto-run complete"

\* C27: submitting '/run-agent --auto' runs all agents as one batch, the same
\* operation as start-agents: afterwards the result set and the dashboard
\* hold exactly one entry per agent of the batch (3 rows for a fixture of 3
\* agents); the token '--auto' is never treated as an agent name.
C27_AutoRunFillsResultsAndDashboard ==
    batch.phase = "done" =>
        /\ Len(state.agentResults) = Len(batch.agents)
        /\ Len(state.dashboardAgents) = Len(batch.agents)
        /\ \A i \in 1..Len(state.logs) : state.logs[i].source # "--auto"

\* C28: the view mode starts as dashboard and changes only by two
\* transitions: dashboard to detail on the detail command, which sets the
\* selected index to 0, and detail to dashboard on cancel (Esc); no other
\* operation (batch completion, refresh tick, scrolling, typing, any other
\* command) changes the view mode.
C28_ViewModeTransitions ==
    /\ state.viewMode = "main"
    /\ [][ state'.viewMode # state.viewMode =>
              \/ /\ state.viewMode = "main"
                 /\ state'.viewMode = "detail"
                 /\ state'.selectedAgentIndex = 0
                 /\ Stroke("return", "")
                 /\ LET parsed == parseCommand(state.inputValue)
                    IN /\ ~parsed.isNull
                       /\ \E c \in DOMAIN commands :
                              /\ commands[c].name = cmdDetail
                              /\ \/ parsed.command = commands[c].name
                                 \/ \E a \in DOMAIN commands[c].aliases :
                                        parsed.command = commands[c].aliases[a]
              \/ /\ state.viewMode = "detail"
                 /\ state'.viewMode = "main"
                 /\ Stroke("escape", "") ]_vars

\* C28 witness: back in the dashboard after Esc was pressed in the detail view
C28_BackFromDetail ==
    /\ state.viewMode = "main"
    /\ lastEvent.op = "key"
    /\ lastEvent.key = "escape"
    /\ lastEvent.viewMode = "detail"

\* C29: in detail mode a lateral navigation key moves the selected index by
\* exactly one, clamped to the result-array bounds with no wraparound: left
\* at index 0 stays at 0, right at index len-1 stays at len-1.
C29_LateralMoveClamped ==
    [][ \A key \in LateralKeys :
            (state.viewMode = "detail" /\ Stroke(key, "")) =>
                LET i == state.selectedAgentIndex
                    last == Len(state.agentResults) - 1
                IN state'.selectedAgentIndex =
                       (IF key \in {"leftArrow", "shiftTab"}
                        THEN (IF i > 0 THEN i - 1 ELSE i)
                        ELSE (IF i < last THEN i + 1 ELSE i)) ]_vars

\* C30: while the view mode is detail, every keystroke other than cancel
\* (Esc) and lateral navigation (left/right arrow, Tab, Shift+Tab) leaves the
\* whole application state unchanged: nothing is appended to the input
\* buffer, no command is parsed or executed, and palette, scroll offset and
\* log feed are untouched.
C30_DetailIgnoresOtherKeys ==
    [][ ( /\ state.viewMode = "detail"
          /\ \/ \E key \in SpecialKeys \ ({"escape"} \cup LateralKeys) : Stroke(key, "")
             \/ \E input \in InputChars : Stroke("char", input) )
            => (state' = state /\ pending' = pending /\ exited' = exited) ]_vars

\* C30 witness: Ctrl+C was pressed in the detail view and the program runs on
C30_CtrlCInDetailIgnored ==
    /\ lastEvent.op = "key"
    /\ lastEvent.key = "ctrlC"
    /\ lastEvent.viewMode = "detail"
    /\ state.viewMode = "detail"
    /\ ~exited

\* C31: with a non-zero scroll offset p the visible window is exactly the
\* entries at positions p .. min(N, p+H)-1 counted from the oldest entry, and
\* appending new log entries while pinned changes neither the offset nor the
\* entries shown.
C31_PinnedWindowUnmovedByAppends ==
    /\ [](LET p == state.scrollOffset
              N == Len(state.logs)
              H == 15
              last == IF N < p + H THEN N ELSE p + H
          IN p # 0 => visibleLogs(state.logs, H, p)
                          = [i \in 1..(last - p) |-> state.logs[p + i]])
    /\ [][ (state.scrollOffset # 0 /\ Len(state'.logs) > Len(state.logs)) =>
               /\ state'.scrollOffset = state.scrollOffset
               /\ visibleLogs(state'.logs, 15, state'.scrollOffset)
                      = visibleLogs(state.logs, 15, state.scrollOffset) ]_vars

\* C31 witness: an entry was appended while the feed was pinned above the tail
C31_AppendedWhilePinned ==
    /\ state.scrollOffset # 0
    /\ lastEvent.logged > 0
    /\ Len(state.logs) > 15 + state.scrollOffset

\* C38: in every reachable state the scroll offset satisfies
\* 0 <= scrollOffset <= max(0, len(logs) - 15), under any interleaving of
\* scroll keys (up, down, PgUp, PgDn, Home, End) and log appends.
C38_ScrollOffsetInRange ==
    /\ 0 <= state.scrollOffset
    /\ state.scrollOffset <= (IF Len(state.logs) > 15 THEN Len(state.logs) - 15 ELSE 0)

\* C38 witness: one line up from the tail of a feed longer than the window
C38_OneLineAboveTail ==
    /\ lastEvent.key = "scrollUp"
    /\ state.scrollOffset > 0
    /\ state.scrollOffset = Len(state.logs) - 15 - 1

\* C32: the executing flag is true in every state in which a batch is in
\* flight, from the moment the batch starts until its last agent has
\* settled, in both the remote batch (start-agents) and the local batch
\* (run-agent --auto); it is not false between two consecutive agents of one
\* batch.
C32_ExecutingWhileBatchInFlight ==
    (/\ batch.phase \in {"loading", "running"}
     /\ \E k \in DOMAIN batch.runs : batch.runs[k].runs > 0)
        => state.isExecuting

\* C33: the engine never retries: each runAgent call invokes the agent's run
\* exactly once, and a batch invokes each agent at most once, whatever the
\* outcome (success, rejection or timeout).
C33_NoRetry ==
    /\ \A k \in DOMAIN batch.runs :
           batch.runs[k].phase # "idle" => batch.runs[k].runs = 1
    /\ Len(batch.runs) <= Len(batch.agents)
    /\ \A i, j \in DOMAIN batch.attempted :
           batch.attempted[i] = batch.attempted[j] => i = j
    /\ \A k \in DOMAIN batch.runs : batch.runs[k].config = batch.agents[k].config

\* C33 witness: a finished batch in which one agent resolved, one threw and
\* one timed out
C33_EveryOutcomeSeenOnce ==
    /\ batch.phase = "done"
    /\ \E i, j, k \in DOMAIN batch.runs :
           /\ batch.runs[i].events # <<>> /\ batch.runs[i].events[1].kind = "resolved"
           /\ batch.runs[j].events # <<>> /\ batch.runs[j].events[1].kind = "rejected"
           /\ batch.runs[k].events # <<>> /\ batch.runs[k].events[1].kind = "timeout"

\* C40: when the agent's work settles before its timeout, the timeout timer
\* that fires later has no observable effect: no error log line is appended
\* for that invocation, the reported outcome does not change, and the
\* executing flag is not touched.
C40_LateTimerHasNoEffect ==
    [][ \A k \in DOMAIN batch.runs :
            (/\ batch.runs[k].events # <<>>
             /\ batch.runs[k].events[1].kind \in {"resolved", "rejected"}
             /\ batch.runs[k].timer = "armed"
             /\ k \in DOMAIN batch'.runs
             /\ batch'.runs[k].timer = "fired")
                => /\ state'.logs = state.logs
                   /\ state'.isExecuting = state.isExecuting
                   /\ state'.currentAgent = state.currentAgent
                   /\ batch'.runs[k].outcome = batch.runs[k].outcome
                   /\ batch'.runs[k].error = batch.runs[k].error
                   /\ batch'.phase = batch.phase
                   /\ batch'.next = batch.next ]_vars

\* C40 witness: the batch has ended and the timer of a call whose work had
\* resolved fired afterwards
C40_TimerFiredAfterWorkResolved ==
    /\ batch.phase = "done"
    /\ ~state.isExecuting
    /\ lastEvent.op = "runAgent:late"
    /\ \E k \in DOMAIN batch.runs :
           /\ Len(batch.runs[k].events) = 2
           /\ batch.runs[k].events[1].kind = "resolved"
           /\ batch.runs[k].events[2].kind = "timeout"
           /\ batch.runs[k].outcome = "resolved"

\* C34: aggregation returns exactly one dashboard row per input result, in
\* input order, each row carrying the result's agent name and executing flag
\* false; calling it twice on the same result set yields identical rows.
C34_OneRowPerResultInOrder ==
    /\ \A r \in 1..Len(board.results) :
           /\ Len(board.results[r]) = Len(board.summaries)
           /\ \A i \in 1..Len(board.summaries) :
                  /\ board.results[r][i].name = board.summaries[i].agent_name
                  /\ board.results[r][i].isExecuting = FALSE
    /\ Len(board.results) = 2 => board.results[1] = board.results[2]

\* C34 witness: two different agents aggregated twice
C34_TwoAgentsAggregatedTwice ==
    /\ Len(board.results) = 2
    /\ Len(board.summaries) = 2
    /\ board.summaries[1].agent_name # board.summaries[2].agent_name
    /\ board.results[2][1].status # board.results[2][2].status

\* C39: in every reachable state the selected palette index is >= 0, and
\* whenever the palette is visible and the filtered command list is non-empty
\* it is smaller than the length of that list, under any sequence of typed
\* characters (including spaces), backspaces and up/down keys.
C39_PaletteIndexInRange ==
    LET filtered == filterCommands(commands, state.inputValue)
    IN /\ state.selectedCommandIndex >= 0
       /\ (state.showCommandPalette /\ filtered # <<>>)
              => state.selectedCommandIndex < Len(filtered)

\* C35: dashboard rows are derived from the stored agent results: whenever no
\* execution request is in flight the dashboard row list equals the
\* aggregation of the current agent result set (same agents, same order).
C35_DashboardIsAggregationOfResults ==
    LET summaryOf(r) == [agent_name |-> r.name, status |-> r.status,
                         summary |-> r.summary, key_metrics |-> r.key_metrics,
                         has_execution_time |-> r.has_execution_time]
        summaries == [i \in 1..Len(state.agentResults) |-> summaryOf(state.agentResults[i])]
    IN InFlight(pending) = 0 => state.dashboardAgents = aggregate(summaries)

\* C35 (amended): dashboard rows are written only by a batch completion and
\* by list-agents; a batch completion leaves them equal to the aggregation
\* of the result set it stores, and list-agents leaves the result set alone.
C35_RowsWrittenByBatchOrListAgents ==
    [][LET summaryOf(r) == [agent_name |-> r.name, status |-> r.status,
                            summary |-> r.summary, key_metrics |-> r.key_metrics,
                            has_execution_time |-> r.has_execution_time]
       IN /\ state'.dashboardAgents # state.dashboardAgents
              => lastEvent'.op \in {"retrieveStatus:ok", "getAgentStatus:ok",
                                    "getAgentStatus:error"}
          /\ lastEvent'.op = "retrieveStatus:ok"
              => state'.dashboardAgents =
                     aggregate([i \in 1..Len(state'.agentResults) |->
                                   summaryOf(state'.agentResults[i])])
          /\ lastEvent'.op \in {"getAgentStatus:ok", "getAgentStatus:error"}
              => state'.agentResults = state.agentResults]_vars

\* C35 witness: list-agents has replaced the rows of a batch whose results
\* are still stored
C35_ListRowsOverBatchResults ==
    /\ lastEvent.op = "getAgentStatus:ok"
    /\ state.agentResults # <<>>
    /\ InFlight(pending) = 0
    /\ ~C35_DashboardIsAggregationOfResults

\* C36: the stored agent result set changes only at a successful batch
\* completion, where it is replaced in full by that batch's results; every
\* other step (single-agent run, list-agents, failed batch, keys) leaves it
\* unchanged.
C36_ResultsReplacedOnlyByBatch ==
    [][/\ state'.agentResults # state.agentResults
           => lastEvent'.op = "retrieveStatus:ok"
       /\ lastEvent'.op = "retrieveStatus:ok"
           => \E report \in Reports :
                  state'.agentResults =
                      [i \in 1..Len(report.agent_summaries) |->
                          agentResult(report.agent_summaries[i])]]_vars

\* C36 witness: a batch typed after startup completed with an empty report
\* and the results of the startup batch are gone
C36_LaterBatchDroppedOlderResults ==
    /\ nkeys > 0
    /\ lastEvent.op = "retrieveStatus:ok"
    /\ state.agentResults = <<>>
    /\ \E i \in 1..Len(state.logs) : state.logs[i].source = "aws"

\* C37: once no request of a start-agents or run-agent handler is pending
\* (the handler has finished, on the success path or on any failure path)
\* the executing flag is false and the current-agent marker is unset.
C37_FlagsResetWhenHandlerFinished ==
    InFlight(pending) = 0 =>
        /\ state.isExecuting = FALSE
        /\ state.currentAgent = Undefined

\* C37 witness: a run-agent whose executeAgent request rejected has finished
C37_RunAgentFailedAndFinished ==
    /\ lastEvent.op = "executeAgent:error"
    /\ InFlight(pending) = 0
    /\ state.isExecuting = FALSE

====
